---- MODULE Spec2Model ----
(***************************************************************************)
(* Model of the course automation core: the option-label codec, the        *)
(* per-question answer resolvers, the exam retry engine, the AI batch      *)
(* dispatcher and the concurrent lanes of the course orchestrator.         *)
(*                                                                         *)
(* Each component has its own variables and its own specification          *)
(* (SpecCodec, SpecResolver, SpecExam, SpecBatch, SpecLanes); the          *)
(* variables of the other components keep their idle values.               *)
(***************************************************************************)
EXTENDS Integers, Sequences, FiniteSets, TLC

VARIABLES
    codec,       \* the pending or finished call of indexToLabel / labelToIndex
    resolver,    \* the fields of one SubjectResolver
    resolverOp,  \* the last operation called on the resolver and what it returned
    exam,        \* ExamProc.exec: control point, loop variables, call counters
    batch,       \* AIModel.batchRequest: control point, items, results, history
    lanes,       \* processCourseGroupConcurrently: every lane's position
    heap,        \* objects created by the lanes and who touched them
    runner,      \* IMSRunner.start: groups, lanes, items and the events emitted
    bus,         \* the progress listeners and what each has received
    queue        \* AIModel's task queue and the inference requests in flight

vars == <<codec, resolver, resolverOp, exam, batch, lanes, heap, runner, bus,
         queue>>

(***************************************************************************)
(* Bounds of the model.                                                    *)
(***************************************************************************)
MaxIndex == 1000
MaxLabelLen == 2
MaxRawLen == 3
MaxNegative == 2
MaxOptions == 3
MaxCalls == 3

Idle == [op |-> "none"]

(***************************************************************************)
(* Label codec (AIModel.ts, indexToLabel / labelToIndex).                  *)
(* A string is a sequence of UTF-16 code units; a number is a record       *)
(* [kind, n]: kind "int" is the integer n, "frac" is n + 1/2, "nan" is NaN.*)
(***************************************************************************)
IntNum(n) == [kind |-> "int", n |-> n]

RECURSIVE indexToLabelLoop(_, _)
indexToLabelLoop(n, s) ==
    IF n > 0
    THEN LET m == n - 1
         IN  indexToLabelLoop(m \div 26, <<(m % 26) + 65>> \o s)
    ELSE s

\* mutant: the ordinary base-26 numeral (no n -= 1 before the digit is taken)
indexToLabel_plainBase26(index) ==
    LET RECURSIVE loop(_, _)
        loop(n, s) == IF n > 0
                      THEN loop(n \div 26, <<(n % 26) + 65>> \o s)
                      ELSE s
    IN  IF index.kind # "int" \/ index.n < 0
        THEN [ok |-> FALSE, label |-> <<>>]
        ELSE [ok |-> TRUE,
              label |-> IF index.n = 0 THEN <<65>> ELSE loop(index.n, <<>>)]

indexToLabel(index) ==
    IF index.kind # "int" \/ index.n < 0
    THEN [ok |-> FALSE, label |-> <<>>]
    ELSE [ok |-> TRUE, label |-> indexToLabelLoop(index.n + 1, <<>>)]

IsWhiteSpace(c) == c \in {9, 10, 11, 12, 13, 32, 160}

RECURSIVE trim(_)
trim(s) ==
    IF s = <<>> THEN s
    ELSE IF IsWhiteSpace(Head(s)) THEN trim(Tail(s))
    ELSE IF IsWhiteSpace(s[Len(s)]) THEN trim(SubSeq(s, 1, Len(s) - 1))
    ELSE s

\* String.prototype.toUpperCase: a-z map to A-Z, U+00DF maps to "SS"
RECURSIVE toUpperCase(_)
toUpperCase(s) ==
    IF s = <<>> THEN <<>>
    ELSE LET c == Head(s)
             u == IF c \in 97..122 THEN <<c - 32>>
                  ELSE IF c = 223 THEN <<83, 83>>
                  ELSE <<c>>
         IN  u \o toUpperCase(Tail(s))

toLowerCase(s) == [k \in 1..Len(s) |-> IF s[k] \in 65..90 THEN s[k] + 32 ELSE s[k]]

IsLabelText(t) == t # <<>> /\ \A k \in 1..Len(t) : t[k] \in 65..90

RECURSIVE labelToIndexLoop(_, _)
labelToIndexLoop(t, n) ==
    IF t = <<>> THEN n
    ELSE labelToIndexLoop(Tail(t), n * 26 + (Head(t) - 64))

\* mutant: the upper-casing is left out, so only upper-case labels decode
labelToIndex_caseSensitive(label) ==
    LET t == trim(label)
    IN  IF ~IsLabelText(t)
        THEN [ok |-> FALSE, index |-> -1]
        ELSE [ok |-> TRUE, index |-> labelToIndexLoop(t, 0) - 1]

labelToIndex(label) ==
    LET t == toUpperCase(trim(label))
    IN  IF ~IsLabelText(t)
        THEN [ok |-> FALSE, index |-> -1]
        ELSE [ok |-> TRUE, index |-> labelToIndexLoop(t, 0) - 1]

(***************************************************************************)
(* The codec's inputs and calls.  Init draws the input of one call, the    *)
(* action applies the function to it.                                      *)
(***************************************************************************)
SeqsUpTo(chars, lo, hi) == UNION {[1..k -> chars] : k \in lo..hi}

\* every upper-case letter string of length 1..MaxLabelLen
LetterLabels == SeqsUpTo(65..90, 1, MaxLabelLen)

\* strings over "A", "b", " ", "1" and U+00DF, of length 0..MaxRawLen
RawLabels == SeqsUpTo({65, 98, 32, 49, 223}, 0, MaxRawLen)

\* label l with the positions in lower written in lower case
ApplyCase(l, lower) ==
    [k \in 1..Len(l) |-> IF k \in lower THEN toLowerCase(<<l[k]>>)[1] ELSE l[k]]

CodecInit ==
    /\ \/ \E x \in {IntNum(n) : n \in (0 - MaxNegative)..MaxIndex}
                  \cup {[kind |-> "frac", n |-> n] : n \in (0 - 1)..1}
                  \cup {[kind |-> "nan", n |-> 0]} :
              codec = [op |-> "indexToLabel", index |-> x, done |-> FALSE]
       \/ \E l \in LetterLabels \cup RawLabels :
              codec = [op |-> "labelToIndex", label |-> l, done |-> FALSE]
       \/ \E i \in 0..MaxIndex :
              \E lower \in SUBSET (1..Len(indexToLabel(IntNum(i)).label)) :
                  codec = [op |-> "roundTrip", index |-> i, lower |-> lower,
                           done |-> FALSE]
    /\ resolver = Idle /\ resolverOp = Idle /\ exam = Idle
    /\ batch = Idle /\ lanes = Idle /\ heap = Idle
    /\ runner = Idle /\ bus = Idle /\ queue = Idle

notCodec == <<resolver, resolverOp, exam, batch, lanes, heap, runner, bus, queue>>

CallIndexToLabel ==
    /\ codec.op = "indexToLabel" /\ ~codec.done
    /\ codec' = [op |-> "indexToLabel", index |-> codec.index, done |-> TRUE,
                 out |-> indexToLabel(codec.index)]
    /\ UNCHANGED notCodec

CallLabelToIndex ==
    /\ codec.op = "labelToIndex" /\ ~codec.done
    /\ codec' = [op |-> "labelToIndex", label |-> codec.label, done |-> TRUE,
                 out |-> labelToIndex(codec.label)]
    /\ UNCHANGED notCodec

\* the loop body of the test: encode, then decode the label in some casing
CallRoundTrip ==
    /\ codec.op = "roundTrip" /\ ~codec.done
    /\ LET l == ApplyCase(indexToLabel(IntNum(codec.index)).label, codec.lower)
       IN  codec' = [op |-> "roundTrip", index |-> codec.index,
                     lower |-> codec.lower, done |-> TRUE, label |-> l,
                     out |-> labelToIndex(l)]
    /\ UNCHANGED notCodec

CodecNext ==
    \/ CallIndexToLabel
    \/ CallLabelToIndex
    \/ CallRoundTrip

SpecCodec == CodecInit /\ [][CodecNext]_vars

(***************************************************************************)
(* C9: labelToIndex(indexToLabel(i)) = i for every i in 0..MaxIndex, and   *)
(* decoding does not depend on the case of the label: the round trip       *)
(* returns i whatever the casing of the label, and every casing of a       *)
(* letter string decodes to the same index.                                *)
(***************************************************************************)
CodecRoundTrip ==
    /\ (codec.op = "roundTrip" /\ codec.done)
           => codec.out = [ok |-> TRUE, index |-> codec.index]
    /\ (codec.op = "labelToIndex" /\ codec.done /\ codec.label \in LetterLabels)
           => \A lower \in SUBSET (1..Len(codec.label)) :
                  labelToIndex(ApplyCase(codec.label, lower)) = codec.out

\* the round trip of the largest index, decoded from a mixed-case label
CodecRoundTripWitness ==
    /\ codec.op = "roundTrip" /\ codec.done
    /\ codec.index = MaxIndex
    /\ codec.label # toUpperCase(codec.label)
    /\ codec.label # toLowerCase(codec.label)
    /\ codec.out.ok

(***************************************************************************)
(* C10: indexToLabel is the bijective base-26 numeral system.              *)
(***************************************************************************)
EncodedOk == codec.op = "indexToLabel" /\ codec.done /\ codec.out.ok

DecodedCall == codec.op = "labelToIndex" /\ codec.done

\* 0..25 are A..Z, 26 is AA, 27 AB, 51 AZ, 52 BA
CodecTable ==
    EncodedOk =>
        LET n == codec.index.n
            l == codec.out.label
        IN  /\ n \in 0..25 => l = <<65 + n>>
            /\ n = 26 => l = <<65, 65>>
            /\ n = 27 => l = <<65, 66>>
            /\ n = 51 => l = <<65, 90>>
            /\ n = 52 => l = <<66, 65>>

\* distinct indices have distinct labels, and a label is a letter string
CodecInjective ==
    EncodedOk =>
        /\ IsLabelText(codec.out.label)
        /\ \A j \in 0..MaxIndex :
               j # codec.index.n => indexToLabel(IntNum(j)).label # codec.out.label

\* every non-empty letter string is the label of the index it decodes to
CodecSurjective ==
    (DecodedCall /\ codec.label \in LetterLabels) =>
        /\ codec.out.ok
        /\ codec.out.index >= 0
        /\ indexToLabel(IntNum(codec.out.index)) = [ok |-> TRUE, label |-> codec.label]

\* a negative or non-integer index is rejected
CodecRejectsIndex ==
    (codec.op = "indexToLabel" /\ codec.done) =>
        (codec.out.ok <=> (codec.index.kind = "int" /\ codec.index.n >= 0))

IsLetter(c) == c \in (65..90) \cup (97..122) \cup {223}

\* l is letters only, between leading and trailing white space
LettersInWhiteSpace(l) ==
    \E i \in 0..Len(l) : \E j \in 0..Len(l) :
        /\ i < j
        /\ \A k \in 1..Len(l) :
               IF k <= i \/ k > j THEN IsWhiteSpace(l[k]) ELSE IsLetter(l[k])

Range(f) == {f[k] : k \in DOMAIN f}

IsSingleKind(kind) == kind \in {"single_selection", "true_or_false"}

\* ShortAnswer, FillInBlank (Cloze and Analysis are subclasses of it that
\* only change the type field) and Matching
TextKinds == {"short_answer", "fill_in_blank", "matching"}

\* a subject's option ids: distinct, and not in ascending order
OptionsOf(n) == [k \in 1..n |-> 10 + (IF k = 1 THEN n ELSE k - 1)]

ForeignOption == 99

NewResolver(kind, options) ==
    [kind |-> kind, options |-> options, wrongOptions |-> <<>>,
     pass |-> FALSE, solvedAnswer |-> <<>>, tried |-> {}, prefetched |-> <<>>,
     cached |-> <<>>]

\* mutant: the options are not filtered
Unexcluded_all(r) == r.options

\* options.flatMap(opt => wrong.has(opt.id) ? [] : opt)
Unexcluded(r) ==
    LET keep(id) == id \notin Range(r.wrongOptions)
    IN  SelectSeq(r.options, keep)

\* mutant: passed only when every option is excluded
SingleIsPass_none(r) == Len(r.options) - Len(r.wrongOptions) = 0

SingleIsPass(r) == Len(r.options) - Len(r.wrongOptions) = 1

isPass(r) == IF IsSingleKind(r.kind) THEN SingleIsPass(r) ELSE r.pass

getBatchRequestData(r) ==
    IF isPass(r) THEN <<>>
    ELSE <<[type |-> IF r.kind \in TextKinds THEN "short_answer" ELSE r.kind,
            options |-> IF IsSingleKind(r.kind) THEN Unexcluded(r)
                        ELSE IF r.kind \in TextKinds THEN <<>>
                        ELSE r.options]>>

\* ids.slice().sort((a, b) => a - b).join(',')
RECURSIVE normalize(_)
normalize(ids) ==
    IF ids = <<>> THEN <<>>
    ELSE LET lo == CHOOSE k \in 1..Len(ids) : \A j \in 1..Len(ids) : ids[k] <= ids[j]
             rest == [j \in 1..(Len(ids) - 1) |-> IF j < lo THEN ids[j] ELSE ids[j + 1]]
         IN  <<ids[lo]>> \o normalize(rest)

\* mutant: the arrays are concatenated, duplicates stay
Dedupe_concat(a) == a

\* [...new Set([...a, ...b])]
RECURSIVE Dedupe(_)
Dedupe(a) ==
    IF a = <<>> THEN <<>>
    ELSE LET front == Dedupe(SubSeq(a, 1, Len(a) - 1))
             x == a[Len(a)]
         IN  IF x \in Range(front) THEN front ELSE Append(front, x)

\* mutant: a zero score is no evidence, the exclusion set is left as it is
SingleAddAnswerFilter_nonZeroOnly(r, score, ids) ==
    IF \E k \in 1..Len(ids) : ids[k] \notin Range(r.options)
    THEN [threw |-> TRUE, r |-> r]
    ELSE [threw |-> FALSE,
          r |-> IF score = 0 THEN r
                ELSE [r EXCEPT !.wrongOptions = Dedupe(r.wrongOptions \o ids)]]

SingleAddAnswerFilter(r, score, ids) ==
    IF \E k \in 1..Len(ids) : ids[k] \notin Range(r.options)
    THEN [threw |-> TRUE, r |-> r]
    ELSE [threw |-> FALSE,
          r |-> [r EXCEPT !.wrongOptions = Dedupe(r.wrongOptions \o ids)]]

\* mutant: a non-zero score only records the complement as tried
MultiAddAnswerFilter_triedOnly(r, score, ids) ==
    LET keep(id) == id \notin Range(ids)
        key == IF score # 0 THEN SelectSeq(r.options, keep) ELSE ids
    IN  [threw |-> FALSE,
         r |-> IF score # 0 \/ ids # <<>>
               THEN [r EXCEPT !.tried = r.tried \cup {normalize(key)}]
               ELSE r]

MultiAddAnswerFilter(r, score, ids) ==
    IF score # 0
    THEN LET keep(id) == id \notin Range(ids)
             solved == SelectSeq(r.options, keep)
         IN  [threw |-> FALSE,
              r |-> [r EXCEPT !.solvedAnswer = <<solved>>,
                              !.pass = TRUE,
                              !.tried = r.tried \cup {normalize(solved)}]]
    ELSE [threw |-> FALSE,
          r |-> IF ids # <<>>
                THEN [r EXCEPT !.tried = r.tried \cup {normalize(ids)}]
                ELSE r]

addAnswerFilter(r, score, ids) ==
    IF IsSingleKind(r.kind)
    THEN SingleAddAnswerFilter(r, score, ids)
    ELSE IF r.kind \in TextKinds
    THEN \* if (score != 0) this.pass = true
         [threw |-> FALSE,
          r |-> IF score # 0 THEN [r EXCEPT !.pass = TRUE] ELSE r]
    ELSE MultiAddAnswerFilter(r, score, ids)

\* indices (0-based) that are in range, as option ids
IdsAt(options, indices) ==
    LET inRange(i) == i >= 0 /\ i < Len(options)
        kept == SelectSeq(indices, inRange)
    IN  [k \in 1..Len(kept) |-> options[kept[k] + 1]]

\* mutant: the prefetched index and the AI index are applied to the
\* subject's options instead of the unexcluded ones
SingleGetAnswer_optionIndex(r, ai) ==
    LET opts == Unexcluded(r)
        cleared == [r EXCEPT !.prefetched = <<>>]
        hasPrefetched == r.prefetched # <<>> /\ r.prefetched[1].indices # <<>>
        pidx == r.prefetched[1].indices[1]
        answer == IF ai.ok THEN ai.idx ELSE 0
        idx == IF answer >= 0 /\ answer < Len(opts) THEN answer ELSE 0
    IN  IF Len(r.wrongOptions) = Len(r.options)
        THEN [threw |-> TRUE, r |-> r, ret |-> <<>>, src |-> "throw", aiCalls |-> 0]
        ELSE IF isPass(r)
        THEN [threw |-> FALSE, r |-> r, ret |-> <<opts[1]>>, src |-> "forced",
              aiCalls |-> 0]
        ELSE IF hasPrefetched /\ pidx >= 0 /\ pidx < Len(opts)
        THEN [threw |-> FALSE, r |-> cleared, ret |-> <<r.options[pidx + 1]>>,
              src |-> "prefetched", aiCalls |-> 0]
        ELSE [threw |-> FALSE, r |-> IF hasPrefetched THEN cleared ELSE r,
              ret |-> <<r.options[idx + 1]>>,
              src |-> IF ai.ok THEN "direct" ELSE "fallback", aiCalls |-> 1]

(* SingleSelection.getAnswer.  ai is the outcome of aiModel.getResponse if *)
(* it is called: [ok |-> FALSE] (rejected) or [ok |-> TRUE, idx |-> i].    *)
(* Returns the resolver afterwards, the answer, where it came from and how *)
(* many direct AI calls were made.                                         *)
SingleGetAnswer(r, ai) ==
    LET opts == Unexcluded(r)
        cleared == [r EXCEPT !.prefetched = <<>>]
        hasPrefetched == r.prefetched # <<>> /\ r.prefetched[1].indices # <<>>
        pidx == r.prefetched[1].indices[1]
        answer == IF ai.ok THEN ai.idx ELSE 0
        idx == IF answer >= 0 /\ answer < Len(opts) THEN answer ELSE 0
    IN  IF Len(r.wrongOptions) = Len(r.options)
        THEN [threw |-> TRUE, r |-> r, ret |-> <<>>, src |-> "throw", aiCalls |-> 0]
        ELSE IF isPass(r)
        THEN [threw |-> FALSE, r |-> r, ret |-> <<opts[1]>>, src |-> "forced",
              aiCalls |-> 0]
        ELSE IF hasPrefetched /\ pidx >= 0 /\ pidx < Len(opts)
        THEN [threw |-> FALSE, r |-> cleared, ret |-> <<opts[pidx + 1]>>,
              src |-> "prefetched", aiCalls |-> 0]
        ELSE [threw |-> FALSE, r |-> IF hasPrefetched THEN cleared ELSE r,
              ret |-> <<opts[idx + 1]>>,
              src |-> IF ai.ok THEN "direct" ELSE "fallback", aiCalls |-> 1]

(* MultipleSelection.getAnswer.  ai is the outcome of getMultiResponse:    *)
(* [ok |-> FALSE] or [ok |-> TRUE, indices |-> ascending indices].         *)
MultiGetAnswer(r, ai) ==
    LET n == Len(r.options)
        hasPrefetched == r.prefetched # <<>> /\ r.prefetched[1].indices # <<>>
        pids == IdsAt(r.options, r.prefetched[1].indices)
        cleared == IF hasPrefetched THEN [r EXCEPT !.prefetched = <<>>] ELSE r
        ids0 == IF ai.ok THEN IdsAt(r.options, ai.indices)
                ELSE SubSeq(r.options, 1, IF n < 2 THEN n ELSE 2)
        last == r.options[n]
        notLast(id) == id # last
        ids == IF normalize(ids0) \in cleared.tried
               THEN IF last \in Range(ids0) THEN SelectSeq(ids0, notLast)
                    ELSE Append(ids0, last)
               ELSE ids0
    IN  IF r.pass /\ r.solvedAnswer # <<>>
        THEN [threw |-> FALSE, r |-> r, ret |-> r.solvedAnswer[1], src |-> "solved",
              aiCalls |-> 0]
        ELSE IF hasPrefetched /\ normalize(pids) \notin r.tried
        THEN [threw |-> FALSE,
              r |-> [cleared EXCEPT !.tried = r.tried \cup {normalize(pids)}],
              ret |-> pids, src |-> "prefetched", aiCalls |-> 0]
        ELSE [threw |-> FALSE,
              r |-> [cleared EXCEPT !.tried = r.tried \cup {normalize(ids)}],
              ret |-> ids, src |-> IF ai.ok THEN "direct" ELSE "fallback",
              aiCalls |-> 1]

getAnswer(r, ai) ==
    IF IsSingleKind(r.kind) THEN SingleGetAnswer(r, ai)
    ELSE IF r.kind \in TextKinds
    THEN [threw |-> FALSE, r |-> r, ret |-> <<>>, src |-> "none", aiCalls |-> 0]
    ELSE MultiGetAnswer(r, ai)

\* raw.replace(/\s+/g, ' ').trim()
RECURSIVE collapse(_)
collapse(raw) ==
    IF raw = <<>> THEN <<>>
    ELSE IF IsWhiteSpace(Head(raw))
    THEN IF Len(raw) > 1 /\ IsWhiteSpace(raw[2]) THEN collapse(Tail(raw))
         ELSE <<32>> \o collapse(Tail(raw))
    ELSE <<Head(raw)>> \o collapse(Tail(raw))

TextTries == 3

\* mutant: a rejected call is followed by the next try
RECURSIVE textLoop_retryOnFailure(_, _, _)
textLoop_retryOnFailure(r, ais, i) ==
    LET t == trim(collapse(ais[i + 1].raw))
        placeholder == IF r.kind = "matching" THEN <<26080, 21305>>
                       ELSE <<26080>>
        fall(n) == [threw |-> FALSE, r |-> r,
                    ret |-> IF r.cached # <<>> THEN r.cached
                            ELSE <<placeholder>>,
                    src |-> "fallback", aiCalls |-> n]
    IN  IF i >= TextTries THEN fall(i)
        ELSE IF ~ais[i + 1].ok THEN textLoop_retryOnFailure(r, ais, i + 1)
        ELSE IF t = <<>> \/ t \in r.tried
        THEN textLoop_retryOnFailure(r, ais, i + 1)
        ELSE [threw |-> FALSE,
              r |-> [r EXCEPT !.tried = @ \cup {t}, !.cached = <<t>>],
              ret |-> <<t>>, src |-> "direct", aiCalls |-> i + 1]

\* for (let i = 0; i < 3; i++) { ... } return this.cached ?? placeholder;
\* ais[i + 1] is the outcome of the getTextResponse call of iteration i, and
\* one or two code points stand for the placeholder literal of the class
RECURSIVE textLoop(_, _, _)
textLoop(r, ais, i) ==
    LET t == trim(collapse(ais[i + 1].raw))
        placeholder == IF r.kind = "matching" THEN <<26080, 21305>>
                       ELSE <<26080>>
        fall(n) == [threw |-> FALSE, r |-> r,
                    ret |-> IF r.cached # <<>> THEN r.cached
                            ELSE <<placeholder>>,
                    src |-> "fallback", aiCalls |-> n]
    IN  IF i >= TextTries THEN fall(i)
        ELSE IF ~ais[i + 1].ok THEN fall(i + 1)
        ELSE IF t = <<>> \/ t \in r.tried THEN textLoop(r, ais, i + 1)
        ELSE [threw |-> FALSE,
              r |-> [r EXCEPT !.tried = @ \cup {t}, !.cached = <<t>>],
              ret |-> <<t>>, src |-> "direct", aiCalls |-> i + 1]

\* getAnswerText of the text resolvers; the other resolvers inherit the
\* base method, which returns undefined
getAnswerText(r, ais) ==
    LET hasPrefetched == r.prefetched # <<>> /\ r.prefetched[1].text # <<>>
        t == trim(collapse(r.prefetched[1].text))
        cleared == IF hasPrefetched THEN [r EXCEPT !.prefetched = <<>>] ELSE r
    IN  IF r.kind \notin TextKinds
        THEN [threw |-> FALSE, r |-> r, ret |-> <<>>, src |-> "none",
              aiCalls |-> 0]
        ELSE IF r.pass
        THEN [threw |-> FALSE, r |-> r, ret |-> r.cached, src |-> "cached",
              aiCalls |-> 0]
        ELSE IF hasPrefetched /\ t # <<>> /\ t \notin r.tried
        THEN [threw |-> FALSE,
              r |-> [cleared EXCEPT !.tried = @ \cup {t}, !.cached = <<t>>],
              ret |-> <<t>>, src |-> "prefetched", aiCalls |-> 0]
        ELSE textLoop(cleared, ais, 0)

reset(r) ==
    IF IsSingleKind(r.kind)
    THEN [r EXCEPT !.wrongOptions = <<>>, !.prefetched = <<>>]
    ELSE IF r.kind \in TextKinds
    THEN [r EXCEPT !.pass = FALSE, !.tried = {}, !.cached = <<>>,
                   !.prefetched = <<>>]
    ELSE [r EXCEPT !.pass = FALSE, !.solvedAnswer = <<>>, !.tried = {},
                   !.prefetched = <<>>]

(***************************************************************************)
(* The calls made on one resolver.  resolverOp records the last call: its  *)
(* arguments, what it returned, where a getAnswer took its answer from,    *)
(* the number of direct AI calls it made and whether the resolver was      *)
(* passed when it was called.                                              *)
(***************************************************************************)
OpRec(op, score, ids, ret, src, aiCalls, threw) ==
    [op |-> op, calls |-> resolverOp.calls + 1, score |-> score, ids |-> ids,
     ret |-> ret, src |-> src, aiCalls |-> aiCalls, threw |-> threw,
     passBefore |-> isPass(resolver), wrongBefore |-> resolver.wrongOptions]

\* the subsequences of s (elements kept in order)
RECURSIVE SubSeqs(_)
SubSeqs(s) ==
    IF s = <<>> THEN {<<>>}
    ELSE LET rest == SubSeqs(Tail(s))
         IN  rest \cup {<<Head(s)>> \o t : t \in rest}

\* ascending index lists, as getMultiResponse and batchRequest build them
IndexLists(n) == SubSeqs([k \in 1..n |-> k - 1]) \ {<<>>}

ResolverInit ==
    /\ \E kind \in {"single_selection", "true_or_false", "multiple_selection"} :
           \E n \in 2..MaxOptions :
               /\ kind = "true_or_false" => n = 2
               /\ resolver = NewResolver(kind, OptionsOf(n))
    /\ resolverOp = [op |-> "new", calls |-> 0, score |-> 0, ids |-> <<>>,
                     ret |-> <<>>, src |-> "", aiCalls |-> 0, threw |-> FALSE,
                     passBefore |-> FALSE, wrongBefore |-> <<>>]
    /\ codec = Idle /\ exam = Idle /\ batch = Idle /\ lanes = Idle /\ heap = Idle
    /\ runner = Idle /\ bus = Idle /\ queue = Idle

notResolver == <<codec, exam, batch, lanes, heap, runner, bus, queue>>

AddAnswerFilter ==
    /\ resolverOp.calls < MaxCalls
    /\ \E score \in {0, 100} :
           \E ids \in SubSeqs(resolver.options) \cup {<<ForeignOption>>} :
               LET res == addAnswerFilter(resolver, score, ids)
               IN  /\ resolver' = res.r
                   /\ resolverOp' = OpRec("addAnswerFilter", score, ids, <<>>, "",
                                          0, res.threw)
    /\ UNCHANGED notResolver

GetBatchRequestData ==
    /\ resolverOp.calls < MaxCalls
    /\ resolver' = resolver
    /\ resolverOp' = OpRec("getBatchRequestData", 0, <<>>,
                           getBatchRequestData(resolver), "", 0, FALSE)
    /\ UNCHANGED notResolver

\* batchPrefetchAnswers hands the resolver the result batchRequest computed
SetPrefetchedResult ==
    /\ resolverOp.calls < MaxCalls
    /\ \E result \in
            IF IsSingleKind(resolver.kind)
            THEN {[indices |-> <<i>>] : i \in 0..(Len(resolver.options) - 1)}
            ELSE IF resolver.kind \in TextKinds
            THEN {[text |-> t] : t \in {<<>>, <<32>>, <<97>>, <<32, 97>>, <<98>>,
                                        <<97, 9, 32, 98>>}}
            ELSE {[indices |-> l] : l \in IndexLists(Len(resolver.options))} :
           resolver' = [resolver EXCEPT !.prefetched = <<result>>]
    /\ resolverOp' = OpRec("setPrefetchedResult", 0, <<>>, <<>>, "", 0, FALSE)
    /\ UNCHANGED notResolver

GetAnswer ==
    /\ resolverOp.calls < MaxCalls
    /\ \E ai \in IF IsSingleKind(resolver.kind)
                 THEN {[ok |-> FALSE, idx |-> 0]}
                      \cup {[ok |-> TRUE, idx |-> i] :
                               i \in 0..(Len(Unexcluded(resolver)) - 1)}
                 ELSE IF resolver.kind \in TextKinds
                 THEN {[ok |-> FALSE, indices |-> <<>>]}
                 ELSE {[ok |-> FALSE, indices |-> <<>>]}
                      \cup {[ok |-> TRUE, indices |-> l] :
                               l \in IndexLists(Len(resolver.options))} :
           LET res == getAnswer(resolver, ai)
           IN  /\ resolver' = res.r
               /\ resolverOp' = OpRec("getAnswer", 0, <<>>, res.ret, res.src,
                                      res.aiCalls, res.threw)
    /\ UNCHANGED notResolver

\* resolver.getAnswerText(); ais are the outcomes of the getTextResponse
\* calls it may make
GetAnswerText ==
    /\ resolverOp.calls < MaxCalls
    /\ \E ais \in IF resolver.kind \in TextKinds /\ ~resolver.pass
                  THEN SeqsUpTo({[ok |-> FALSE, raw |-> <<>>]}
                                \cup {[ok |-> TRUE, raw |-> t] :
                                         t \in {<<>>, <<97>>, <<97, 32>>,
                                                <<98>>}},
                                0, TextTries)
                  ELSE {<<>>} :
           LET unused == [k \in 1..TextTries |-> [ok |-> FALSE, raw |-> <<>>]]
               res == getAnswerText(resolver, ais \o unused)
           IN  /\ res.aiCalls = Len(ais)
               /\ resolver' = res.r
               /\ resolverOp' = OpRec("getAnswerText", 0, ais, res.ret,
                                      res.src, res.aiCalls, res.threw)
    /\ UNCHANGED notResolver

\* resolver.reset(); ShortAnswer defines no reset method, so the call on a
\* short-answer resolver throws a TypeError and changes nothing
Reset ==
    /\ resolverOp.calls < MaxCalls
    /\ IF resolver.kind = "short_answer"
       THEN /\ resolver' = resolver
            /\ resolverOp' = OpRec("reset", 0, <<>>, <<>>, "", 0, TRUE)
       ELSE /\ resolver' = reset(resolver)
            /\ resolverOp' = OpRec("reset", 0, <<>>, <<>>, "", 0, FALSE)
    /\ UNCHANGED notResolver

ResolverNext ==
    \/ AddAnswerFilter
    \/ GetBatchRequestData
    \/ SetPrefetchedResult
    \/ GetAnswer
    \/ GetAnswerText
    \/ Reset

SpecResolver == ResolverInit /\ [][ResolverNext]_vars

MaxMultiOptions == 2

\* the same calls on a resolver of any kind
AnyResolverInit ==
    /\ \E kind \in {"single_selection", "true_or_false", "multiple_selection"}
                    \cup TextKinds :
           \E n \in 2..MaxOptions :
               /\ kind \in {"true_or_false"} \cup TextKinds => n = 2
               /\ kind = "multiple_selection" => n <= MaxMultiOptions
               /\ resolver = NewResolver(kind, OptionsOf(n))
    /\ resolverOp = [op |-> "new", calls |-> 0, score |-> 0, ids |-> <<>>,
                     ret |-> <<>>, src |-> "", aiCalls |-> 0, threw |-> FALSE,
                     passBefore |-> FALSE, wrongBefore |-> <<>>]
    /\ codec = Idle
    /\ exam = Idle
    /\ batch = Idle
    /\ lanes = Idle
    /\ heap = Idle
    /\ runner = Idle
    /\ bus = Idle
    /\ queue = Idle

SpecAnyResolver == AnyResolverInit /\ [][ResolverNext]_vars

(***************************************************************************)
(* C1: a single-choice or true/false resolver with n-1 of its n options    *)
(* excluded is passed, asks for no batch request, and getAnswer returns    *)
(* the one remaining option without any AI call.                           *)
(***************************************************************************)
Remaining == Range(resolver.options) \ Range(resolver.wrongOptions)

EliminationForcesAnswer ==
    (/\ IsSingleKind(resolver.kind)
     /\ Len(resolver.wrongOptions) = Len(resolver.options) - 1)
        => /\ isPass(resolver)
           /\ getBatchRequestData(resolver) = <<>>
           /\ resolverOp.op = "getBatchRequestData" => resolverOp.ret = <<>>
           /\ resolverOp.op = "getAnswer"
                  => /\ ~resolverOp.threw
                     /\ Len(resolverOp.ret) = 1
                     /\ Remaining = {resolverOp.ret[1]}
                     /\ resolverOp.src = "forced"
                     /\ resolverOp.aiCalls = 0

\* the largest subject, all options but one excluded, answered by getAnswer
EliminationForcesAnswerWitness ==
    /\ resolver.kind = "single_selection"
    /\ Len(resolver.options) = MaxOptions
    /\ Len(resolver.wrongOptions) = MaxOptions - 1
    /\ resolverOp.op = "getAnswer"
    /\ Remaining = {resolverOp.ret[1]}
    /\ resolverOp.aiCalls = 0

(***************************************************************************)
(* C2 as claimed: addAnswerFilter with score 0 leaves the exclusion set of *)
(* a single-selection resolver unchanged, and the getAnswer that follows   *)
(* still consults the AI.                                                  *)
(***************************************************************************)
SingleFilterDone ==
    /\ IsSingleKind(resolver.kind)
    /\ resolverOp.op = "addAnswerFilter"
    /\ ~resolverOp.threw

ZeroScoreLeavesExclusionUnchanged ==
    [][/\ (/\ IsSingleKind(resolver.kind)
           /\ resolverOp'.op = "addAnswerFilter"
           /\ resolverOp'.score = 0
           /\ ~resolverOp'.threw)
              => resolver'.wrongOptions = resolver.wrongOptions
       /\ (/\ SingleFilterDone
           /\ resolverOp.score = 0
           /\ ~resolverOp.passBefore
           /\ resolverOp'.op = "getAnswer")
              => resolverOp'.src \in {"prefetched", "direct", "fallback"}]_vars

(* C2 as amended: addAnswerFilter ignores the score: with score 0, as with *)
(* any score, the given option ids are added to the exclusion set (set     *)
(* union); a getAnswer made while at least two options are unexcluded      *)
(* still consults the AI (a prefetched batch result or a direct call) and  *)
(* never returns an excluded option.                                       *)
ZeroScoreExcludesChosenOption ==
    /\ SingleFilterDone
           => /\ Range(resolver.wrongOptions)
                     = Range(resolverOp.wrongBefore) \cup Range(resolverOp.ids)
              /\ Len(resolver.wrongOptions) = Cardinality(Range(resolver.wrongOptions))
    /\ (/\ IsSingleKind(resolver.kind)
        /\ resolverOp.op = "getAnswer"
        /\ Cardinality(Remaining) >= 2)
           => /\ resolverOp.src \in {"prefetched", "direct", "fallback"}
              /\ Len(resolverOp.ret) = 1
              /\ resolverOp.ret[1] \in Remaining

\* addAnswerFilter(0, B) on a fresh subject of MaxOptions options: B is excluded
ZeroScoreExcludesWitness ==
    /\ SingleFilterDone
    /\ resolverOp.score = 0
    /\ Len(resolver.options) = MaxOptions
    /\ resolverOp.wrongBefore = <<>>
    /\ resolverOp.ids = <<resolver.options[2]>>
    /\ resolver.wrongOptions = <<resolver.options[2]>>

(***************************************************************************)
(* C3: of two successive getAnswer calls on a multiple-selection resolver  *)
(* that has not passed, the second never returns an option-id set whose    *)
(* sorted form is already in the tried set.                                *)
(***************************************************************************)
MultiNeverRepeatsTried ==
    [][(/\ resolver.kind = "multiple_selection"
        /\ resolverOp.op = "getAnswer"
        /\ resolverOp'.op = "getAnswer"
        /\ ~isPass(resolver))
           => normalize(resolverOp'.ret) \notin resolver.tried]_vars

(***************************************************************************)
(* ExamProc.exec: the retry loop of one exam item.  One action per         *)
(* external call the loop awaits; exam.pc names the call awaited next.     *)
(***************************************************************************)
MaxRetriesBound == 2
PollLimit == 5
SubmitCounter == 5

\* exam_score values the server reports, and the values of _TOTAL_POINTS
Scores == {0, 60, 100}

\* JS truthiness of a number | undefined (<<>> is undefined)
Truthy(score) == score # <<>> /\ score[1] # 0

\* pullQuestions returns null
pullQuestionsReturnsNull(examScore, totalPoints) ==
    /\ Truthy(examScore)
    /\ (examScore[1] = totalPoints \/ examScore[1] > totalPoints)

loopCondition_strict(q, retry, maxRetries) == q /\ retry < maxRetries

\* for (let retry = 0; q && retry <= this.maxRetries; retry++)
loopCondition(q, retry, maxRetries) == q /\ retry <= maxRetries

Terminal == {"done", "threw", "exit"}

RetryDelayMs == 10000
RetryCount == 3

\* one more open-attempt or postSubmissions call of the item
CountCall(e) == IF e.saw400 THEN [e EXCEPT !.after400 = 1] ELSE e

ExamInit ==
    /\ exam \in [op : {"exec"}, pc : {"pullQuestions"}, first : {TRUE},
                 i : {0}, retry : {0}, counter : {0},
                 maxRetries : 0..MaxRetriesBound, totalPoints : Scores,
                 opens : {0}, submits : {0}, posts : {0},
                 best : {<<>>} \cup {<<s>> : s \in Scores},
                 failed : {FALSE}, reached : {FALSE}, outcome : {"running"},
                 attemptPosts : {0}, attemptOk : {FALSE}, slept : {0},
                 runs : {1}, saw400 : {FALSE}, after400 : {0},
                 fed : {"none"}, pollSlept : {0}]
    /\ codec = Idle
    /\ resolver = Idle
    /\ resolverOp = Idle
    /\ batch = Idle
    /\ lanes = Idle
    /\ heap = Idle
    /\ runner = Idle /\ bus = Idle /\ queue = Idle

notExam == <<codec, resolver, resolverOp, batch, lanes, heap, runner, bus, queue>>

Stop(pc, outcome) ==
    [exam EXCEPT !.pc = pc, !.outcome = outcome,
                 !.failed = @ \/ pc # "done"]

\* if (examScore) { for (const { id } of submissions) collectSubmissons }:
\* whether a pullQuestions that returns questions fed the earlier
\* submissions to the resolvers
collectHistory(examScore, totalPoints) ==
    IF pullQuestionsReturnsNull(examScore, totalPoints) THEN "none"
    ELSE IF Truthy(examScore) THEN "fed"
    ELSE "skipped"

\* what exec does with the value pullQuestions returned
AfterPull(e, q, cookies) ==
    IF e.first
    THEN IF ~q THEN [e EXCEPT !.pc = "done", !.outcome = "pass"]
         ELSE IF ~cookies
              THEN [e EXCEPT !.pc = "exit", !.outcome = "exit", !.failed = TRUE]
         ELSE IF loopCondition(q, 0, e.maxRetries)
              THEN [e EXCEPT !.pc = "submissionsStorage", !.first = FALSE]
         ELSE [e EXCEPT !.pc = "done", !.outcome = "exhausted"]
    ELSE IF q /\ e.retry >= e.maxRetries
         THEN [e EXCEPT !.pc = "done", !.outcome = "exhausted"]
    ELSE IF loopCondition(q, e.retry + 1, e.maxRetries)
         THEN [e EXCEPT !.pc = "submissionsStorage", !.retry = @ + 1]
    ELSE [e EXCEPT !.pc = "done", !.retry = @ + 1,
                   !.outcome = IF q THEN "exhausted" ELSE "pass"]

\* the best score after one more graded submission: never lower than before
BestAfter(best) ==
    IF best = <<>> THEN {<<>>} \cup {<<s>> : s \in Scores}
    ELSE {<<s>> : s \in {t \in Scores : t >= best[1]}}

PollDelayMs == 10000

pollCondition_unbounded(i, pending) == pending

\* while (i < 5 && getSubmission.submissions?.find(({ score }) => score == null))
pollCondition(i, pending) == i < PollLimit /\ pending

\* one getSubmissions response inside pullQuestions; the last one is
\* followed by the rest of pullQuestions and exec up to its next call
PullQuestions ==
    /\ exam.op = "exec"
    /\ exam.pc = "pullQuestions"
    /\ \E pending \in BOOLEAN, res \in {"ok", "error", "noCookies"} :
         exam' =
           IF res = "error" THEN Stop("threw", "threw")
           ELSE IF pollCondition(exam.i, pending)
           THEN [exam EXCEPT !.i = @ + 1, !.pollSlept = @ + PollDelayMs]
           ELSE AfterPull(
                  [exam EXCEPT
                     !.reached =
                       @ \/ (exam.best # <<>> /\ exam.best[1] >= exam.totalPoints),
                     !.fed = collectHistory(exam.best, exam.totalPoints)],
                  ~pullQuestionsReturnsNull(exam.best, exam.totalPoints),
                  res # "noCookies")
    /\ UNCHANGED notExam

\* exam.submissionsStorage answers: the attempt is open
SubmissionsStorage ==
    /\ exam.op = "exec"
    /\ exam.pc = "submissionsStorage"
    /\ \E res \in {"id", "none", "error"} :
         exam' =
           CountCall(
             IF res = "error"
             THEN [Stop("threw", "threw") EXCEPT !.opens = @ + 1]
             ELSE IF res = "none"
             THEN [Stop("exit", "exit") EXCEPT !.opens = @ + 1]
             ELSE [exam EXCEPT !.opens = @ + 1, !.pc = "getAnswer"])
    /\ UNCHANGED notExam

\* batchPrefetchAnswers, every resolver's getAnswer, the wait, and the
\* entry of submitAnswer
AnswerSubjects ==
    /\ exam.op = "exec"
    /\ exam.pc = "getAnswer"
    /\ \E res \in {"ok", "error"} :
         exam' =
           IF res = "error" THEN Stop("threw", "threw")
           ELSE [exam EXCEPT !.pc = "postSubmissions", !.submits = @ + 1,
                             !.counter = SubmitCounter, !.attemptPosts = 0,
                             !.attemptOk = FALSE, !.slept = 0]
    /\ UNCHANGED notExam

\* one exam.postSubmissions response inside submitAnswer
PostSubmissions ==
    /\ exam.op = "exec"
    /\ exam.pc = "postSubmissions"
    /\ LET e == [CountCall(exam) EXCEPT !.posts = @ + 1, !.attemptPosts = @ + 1]
       IN  \E res \in {"ok", "429", "400", "other"} :
             \/ /\ res = "ok"
                /\ \E b \in BestAfter(exam.best) :
                     exam' = [e EXCEPT !.pc = "pullQuestions", !.i = 0,
                                       !.pollSlept = 0,
                                       !.best = b, !.attemptOk = TRUE]
             \/ /\ res = "429"
                /\ exam' = [e EXCEPT !.failed = TRUE, !.pc = "sleep429"]
             \/ /\ res \in {"400", "other"}
                /\ exam' = [e EXCEPT !.pc = "threw", !.outcome = "threw",
                                     !.failed = TRUE,
                                     !.saw400 = @ \/ res = "400"]
    /\ UNCHANGED notExam

submitLoopCondition_unbounded(r, counter) == ~r

\* } while (!r && counter > 0);
submitLoopCondition(r, counter) == ~r /\ counter > 0

\* sleep(10000) after a 429 is over: counter--, then the loop test
RetryDelayElapsed ==
    /\ exam.op = "exec"
    /\ exam.pc = "sleep429"
    /\ exam' = [exam EXCEPT !.slept = @ + RetryDelayMs,
                            !.counter = @ - 1,
                            !.i = 0, !.pollSlept = 0,
                            !.pc = IF submitLoopCondition(FALSE, exam.counter - 1)
                                   THEN "postSubmissions"
                                   ELSE "pullQuestions"]
    /\ UNCHANGED notExam

\* errorWithRetry(name, 3): what the wrapper does when run's callback threw
errorWithRetry(runs) == IF runs < RetryCount THEN "retry" ELSE "failed"

\* exec threw: the wrapper reloads the page and runs exec again
RetryExec ==
    /\ exam.op = "exec"
    /\ exam.pc = "threw"
    /\ errorWithRetry(exam.runs) = "retry"
    /\ exam' = [exam EXCEPT !.runs = @ + 1, !.pc = "pullQuestions",
                            !.first = TRUE, !.i = 0, !.pollSlept = 0,
                            !.retry = 0,
                            !.counter = 0, !.opens = 0, !.submits = 0,
                            !.posts = 0, !.attemptPosts = 0,
                            !.attemptOk = FALSE, !.slept = 0,
                            !.outcome = "running"]
    /\ UNCHANGED notExam

ExamNext ==
    \/ PullQuestions
    \/ SubmissionsStorage
    \/ AnswerSubjects
    \/ PostSubmissions
    \/ RetryDelayElapsed
    \/ RetryExec

SpecExam == ExamInit /\ [][ExamNext]_vars

\* the event loop resumes exec whenever the call it awaits has answered
SpecExamFair == SpecExam /\ WF_vars(ExamNext)

(***************************************************************************)
(* C4: once pullQuestions has observed a best score >= the threshold, at   *)
(* loop entry or after a submission, exec has ended normally as PASS: no   *)
(* attempt is opened and nothing is posted after the observation.          *)
(***************************************************************************)
PassObservedEndsExam ==
    exam.reached => (exam.pc = "done" /\ exam.outcome = "pass")

(***************************************************************************)
(* C5: exec never opens or submits more than maxRetries + 1 attempts; when *)
(* the best score never reaches the threshold and no call fails, it ends   *)
(* (EXHAUSTED) after exactly maxRetries + 1 attempts, each one open plus   *)
(* one submitAnswer.                                                       *)
(***************************************************************************)
ExhaustedAttempts ==
    /\ exam.opens <= exam.maxRetries + 1
    /\ exam.submits <= exam.opens
    /\ (exam.pc = "done" /\ ~exam.failed /\ ~exam.reached)
          => /\ exam.outcome = "exhausted"
             /\ exam.opens = exam.maxRetries + 1
             /\ exam.submits = exam.maxRetries + 1
             /\ exam.posts = exam.maxRetries + 1

ExhaustsAfterMaxRetries ==
    /\ []ExhaustedAttempts
    /\ <>(exam.failed \/ exam.reached \/ exam.pc = "done")

ExhaustsAfterMaxRetriesWitness ==
    /\ exam.pc = "done"
    /\ ~exam.failed
    /\ ~exam.reached
    /\ exam.outcome = "exhausted"
    /\ exam.maxRetries = MaxRetriesBound
    /\ exam.opens = MaxRetriesBound + 1
    /\ exam.submits = MaxRetriesBound + 1

(***************************************************************************)
(* AIModel.batchRequest: one call, from entry to the returned map.  The    *)
(* requests are the ones batchPrefetchAnswers collects from the resolvers. *)
(***************************************************************************)
MaxItems == 3
MaxQps == 3

FreeTextKinds == {"short_answer", "fill_in_blank"}

BatchKinds == {"single_selection", "multiple_selection"} \cup FreeTextKinds

requestType_subject(kind) == kind

\* the type a resolver of this kind puts in its BatchRequestItem
requestType(kind) ==
    IF kind \in FreeTextKinds THEN "short_answer" ELSE kind

\* the value a request produces when its inference call succeeds
Responses(type) ==
    IF type = "short_answer" THEN {[text |-> "answer"], [text |-> ""]}
    ELSE IF type = "multiple_selection"
         THEN {[indices |-> <<0, 1>>], [indices |-> <<1>>]}
    ELSE {[indices |-> <<0>>], [indices |-> <<1>>]}

\* the catch block of one request
fallback(type) ==
    IF type = "short_answer" THEN [text |-> "placeholder"]
    ELSE [indices |-> <<0>>]

\* the promise of one request of a batch: try { ... } catch { ... }
requestPromise(type, ok, response) ==
    [state |-> "fulfilled",
     value |-> IF ok THEN response ELSE fallback(type)]

Batches_single(n, qps, i) ==
    IF i >= n THEN <<>> ELSE <<[k \in 1..(n - i) |-> i + k]>>

\* for (let i = 0; i < requests.length; i += qps) requests.slice(i, i + qps)
\* as the positions 1..n of the requests each batch holds
RECURSIVE Batches(_, _, _)
Batches(n, qps, i) ==
    IF i >= n THEN <<>>
    ELSE <<[k \in 1..(IF n - i < qps THEN n - i ELSE qps) |-> i + k]>>
             \o Batches(n, qps, i + qps)

RequestLists ==
    UNION {[1..n -> BatchKinds] : n \in 0..MaxItems}

BatchInit ==
    /\ \E kinds \in RequestLists, qps \in 1..MaxQps :
         batch = [op |-> "batchRequest", pc |-> "call",
                  requests |-> [k \in 1..Len(kinds) |->
                                  [id |-> 20 + k, kind |-> kinds[k],
                                   type |-> requestType(kinds[k])]],
                  qps |-> qps, batches |-> <<>>, batchIdx |-> 0,
                  item |-> [k \in 1..Len(kinds) |-> "new"],
                  promise |-> [k \in 1..Len(kinds) |-> <<>>],
                  response |-> [k \in 1..Len(kinds) |-> <<>>],
                  results |-> <<>>, started |-> <<>>, delays |-> 0]
    /\ codec = Idle
    /\ resolver = Idle
    /\ resolverOp = Idle
    /\ exam = Idle
    /\ lanes = Idle
    /\ heap = Idle
    /\ runner = Idle /\ bus = Idle /\ queue = Idle

notBatch == <<codec, resolver, resolverOp, exam, lanes, heap, runner, bus, queue>>

\* batch.map(async (req) => ...): every request of batch b is started
StartBatch(st, b) ==
    [st EXCEPT !.batchIdx = b, !.pc = "await",
               !.item = [k \in DOMAIN @ |->
                           IF \E j \in DOMAIN st.batches[b] : st.batches[b][j] = k
                           THEN "pending" ELSE @[k]],
               !.started = @ \o st.batches[b]]

\* entry of batchRequest: partition, then start the first batch, or
\* return the empty map when there is nothing to ask
BatchRequest ==
    /\ batch.op = "batchRequest"
    /\ batch.pc = "call"
    /\ LET batches == Batches(Len(batch.requests), batch.qps, 0)
           st == [batch EXCEPT !.batches = batches]
       IN  batch' = IF Len(batches) = 0 THEN [st EXCEPT !.pc = "done"]
                    ELSE StartBatch(st, 1)
    /\ UNCHANGED notBatch

\* the inference call of one started request answers or fails
RequestSettle ==
    /\ batch.op = "batchRequest"
    /\ batch.pc = "await"
    /\ \E k \in DOMAIN batch.item, ok \in BOOLEAN :
         /\ batch.item[k] = "pending"
         /\ \E r \in Responses(batch.requests[k].type) :
              /\ ok \/ r = CHOOSE x \in Responses(batch.requests[k].type) : TRUE
              /\ batch' = [batch EXCEPT
                     !.item[k] = IF ok THEN "ok" ELSE "failed",
                     !.response[k] = IF ok THEN <<r>> ELSE <<>>,
                     !.promise[k] =
                         <<requestPromise(batch.requests[k].type, ok, r)>>]
    /\ UNCHANGED notBatch

\* Promise.all(batchPromises) settles: results.set for every request of
\* the batch, then the sleep between batches or the return
BatchCollect ==
    /\ batch.op = "batchRequest"
    /\ batch.pc = "await"
    /\ LET cur == batch.batches[batch.batchIdx]
           ids == {batch.requests[cur[j]].id : j \in DOMAIN cur}
           posOf(id) == CHOOSE k \in DOMAIN batch.requests :
                            batch.requests[k].id = id
       IN  /\ \A j \in DOMAIN cur : batch.item[cur[j]] \in {"ok", "failed"}
           /\ batch' =
                IF \E j \in DOMAIN cur :
                       batch.promise[cur[j]][1].state = "rejected"
                THEN [batch EXCEPT !.pc = "rejected"]
                ELSE [batch EXCEPT
                        !.results = [id \in DOMAIN @ \cup ids |->
                                       IF id \in ids
                                       THEN batch.promise[posOf(id)][1].value
                                       ELSE @[id]],
                        !.pc = IF batch.batchIdx < Len(batch.batches)
                               THEN "sleep" ELSE "done"]
    /\ UNCHANGED notBatch

\* sleep(1000) is over: the next batch is started
DelayElapsed ==
    /\ batch.op = "batchRequest"
    /\ batch.pc = "sleep"
    /\ batch' = StartBatch([batch EXCEPT !.delays = @ + 1], batch.batchIdx + 1)
    /\ UNCHANGED notBatch

BatchNext ==
    \/ BatchRequest
    \/ RequestSettle
    \/ BatchCollect
    \/ DelayElapsed

SpecBatch == BatchInit /\ [][BatchNext]_vars

(***************************************************************************)
(* C6: for N requests and rate Q there are ceil(N/Q) batches of at most Q  *)
(* requests, holding every request once and in input order; requests are   *)
(* in flight only for the current batch, which was started after one delay *)
(* per earlier batch; the call returns after the last batch, with no delay *)
(* after it.                                                               *)
(***************************************************************************)
CeilDiv(n, q) == (n + q - 1) \div q

StartedUpTo(b) ==
    LET RECURSIVE Cat(_)
        Cat(j) == IF j = 0 THEN <<>> ELSE Cat(j - 1) \o batch.batches[j]
    IN  Cat(b)

BatchSchedule ==
    LET n == Len(batch.requests)
        nb == Len(batch.batches)
    IN  batch.pc # "call" =>
          /\ nb = CeilDiv(n, batch.qps)
          /\ \A b \in 1..nb : Len(batch.batches[b]) \in 1..batch.qps
          /\ StartedUpTo(nb) = [k \in 1..n |-> k]
          /\ batch.started = StartedUpTo(batch.batchIdx)
          /\ \A k \in 1..n :
                batch.item[k] = "pending" =>
                   /\ batch.pc = "await"
                   /\ \E j \in DOMAIN batch.batches[batch.batchIdx] :
                          batch.batches[batch.batchIdx][j] = k
          /\ batch.pc \in {"await", "sleep"} => batch.delays = batch.batchIdx - 1
          /\ batch.pc = "done" =>
                /\ batch.batchIdx = nb
                /\ batch.delays = (IF nb = 0 THEN 0 ELSE nb - 1)
                /\ \A k \in 1..n : batch.item[k] \in {"ok", "failed"}

BatchScheduleWitness ==
    /\ batch.op = "batchRequest"
    /\ batch.pc = "done"
    /\ Len(batch.requests) = 3
    /\ batch.qps = 2
    /\ Len(batch.batches) = 2
    /\ batch.delays = 1

(***************************************************************************)
(* C7: batchRequest never rejects; the returned map has one entry per      *)
(* request id; a failed choice request maps to indices [0], a failed       *)
(* free-text request to the placeholder text, and every other request to   *)
(* what its inference call answered.                                       *)
(***************************************************************************)
BatchFallback ==
    /\ batch.op = "batchRequest" => batch.pc # "rejected"
    /\ (batch.op = "batchRequest" /\ batch.pc = "done") =>
          /\ DOMAIN batch.results =
                {batch.requests[k].id : k \in DOMAIN batch.requests}
          /\ \A k \in DOMAIN batch.requests :
                LET req == batch.requests[k]
                IN  batch.results[req.id] =
                      IF batch.item[k] = "ok" THEN batch.response[k][1]
                      ELSE IF req.kind \in FreeTextKinds
                           THEN [text |-> "placeholder"]
                      ELSE [indices |-> <<0>>]

BatchFallbackWitness ==
    /\ batch.op = "batchRequest"
    /\ batch.pc = "done"
    /\ Len(batch.requests) = 3
    /\ batch.requests[1].kind = "fill_in_blank"
    /\ batch.item[1] = "failed"
    /\ batch.requests[2].kind = "single_selection"
    /\ batch.item[2] = "failed"
    /\ batch.item[3] = "ok"
    /\ batch.results[23] = [indices |-> <<0, 1>>]

(***************************************************************************)
(* processCourseGroupConcurrently: the worker lanes of one course group.   *)
(* heap holds the objects the lanes create; an object records the item     *)
(* whose invocation created it and the items whose invocations used it.    *)
(***************************************************************************)
MaxCourses == 3
MaxLanes == 2
MaxTries == 2

NoRef == <<>>

NoLane == [pc |-> "idle", item |-> 0, processor |-> NoRef,
           session |-> NoRef, resolver |-> NoRef, tries |-> 0]

\* new: an object created by the invocation for `item`
New(h, id, item) ==
    [x \in DOMAIN h \cup {id} |->
        IF x = id THEN [creator |-> item, users |-> {}, courseInfo |-> 0]
        ELSE h[x]]

\* a read or write of object id by the invocation for `item`
Use(h, id, item) == [h EXCEPT ![id].users = @ \cup {item}]

getProcessor_singleton(h, item) ==
    IF \E id \in DOMAIN h : id[1] = "processor"
    THEN CHOOSE id \in DOMAIN h : id[1] = "processor"
    ELSE <<"processor", item, 0>>

\* return ctor ? new ctor() : void 0
getProcessor(h, item) == <<"processor", item, 0>>

MaxTotal == 8
MaxConfigured == 7
ConcurrencyCap == 6

Min(a, b) == IF a < b THEN a ELSE b

Max(a, b) == IF a < b THEN b ELSE a

\* Number(process.env._CONCURRENCY ?? 1): n + 1/2 is [kind |-> "frac", n |-> n]
ConcurrencyInputs ==
    {[kind |-> "nan", n |-> 0], [kind |-> "inf", n |-> 0],
     [kind |-> "frac", n |-> -1], [kind |-> "frac", n |-> 2]}
       \cup {IntNum(n) : n \in -1..MaxConfigured}

\* getConcurrency, for the number raw
getConcurrency(raw) ==
    LET n == IF raw.kind \in {"int", "frac"} THEN raw.n ELSE 1
    IN  Min(Max(n, 0), ConcurrencyCap)

resolveConcurrencyForCourses_uncapped(raw, totalCourses) ==
    LET cfg == getConcurrency(raw)
    IN  IF totalCourses <= 0 THEN 0
        ELSE IF cfg = 0 THEN Min(ConcurrencyCap, totalCourses)
        ELSE Max(Min(cfg, ConcurrencyCap), 1)

resolveConcurrencyForCourses(raw, totalCourses) ==
    LET cfg == getConcurrency(raw)
        desired == IF cfg = 0 THEN Min(ConcurrencyCap, totalCourses)
                   ELSE Min(cfg, ConcurrencyCap)
    IN  IF totalCourses <= 0 THEN 0
        ELSE Min(Max(desired, 1), totalCourses)

\* the lanes processCourseGroup runs for `courses` items when `pages`
\* worker pages can be had: one in serial mode
WorkerCount(concurrency, courses, pages) ==
    IF concurrency <= 1 \/ courses <= 1 THEN 1
    ELSE Max(Min(Min(concurrency, courses), pages), 1)

LanesInit ==
    /\ \/ \E courses \in 1..MaxCourses, raw \in ConcurrencyInputs,
              pages \in 1..MaxLanes :
            LET concurrency == resolveConcurrencyForCourses(raw, courses)
            IN  lanes = [op |-> "group", courses |-> courses, next |-> 0,
                         concurrency |-> concurrency,
                         lane |-> [w \in 1..WorkerCount(concurrency, courses,
                                                        pages) |-> NoLane]]
       \/ \E raw \in ConcurrencyInputs, total \in -1..MaxTotal :
            lanes = [op |-> "resolveConcurrencyForCourses", raw |-> raw,
                     totalCourses |-> total, result |-> <<>>]
    /\ heap = <<>>
    /\ runner = Idle /\ bus = Idle /\ queue = Idle
    /\ codec = Idle
    /\ resolver = Idle
    /\ resolverOp = Idle
    /\ exam = Idle
    /\ batch = Idle

notLanes == <<codec, resolver, resolverOp, exam, batch, runner, bus, queue>>

\* exec starts: it reads this.#courseInfo and creates the Exam and the
\* resolver list of this run
StartExec(h, l, tries) ==
    LET id == <<"session", l.item, tries>>
        h1 == Use(h, l.processor, l.item)
        h2 == New(h1, id, l.item)
    IN  [h2 EXCEPT ![id].courseInfo = h[l.processor].courseInfo]

\* const idx = next++, then processSingleCourse up to the await of
\* processor.condition, which stores the course in the processor
TakeCourse ==
    /\ lanes.op = "group"
    /\ \E w \in DOMAIN lanes.lane :
         /\ lanes.lane[w].pc = "idle"
         /\ LET idx == lanes.next
                item == idx + 1
                id == getProcessor(heap, item)
                h1 == IF id \in DOMAIN heap THEN heap ELSE New(heap, id, item)
            IN  IF idx >= lanes.courses
                THEN /\ lanes' = [lanes EXCEPT !.next = @ + 1,
                                               !.lane[w].pc = "returned"]
                     /\ heap' = heap
                ELSE /\ lanes' = [lanes EXCEPT
                            !.next = @ + 1,
                            !.lane[w] = [NoLane EXCEPT !.pc = "condition",
                                                       !.item = item,
                                                       !.processor = id]]
                     /\ heap' = [Use(h1, id, item) EXCEPT
                                    ![id].courseInfo = item]
    /\ UNCHANGED notLanes

\* condition answers; on true the page is navigated and exec is started.
\* An exception of condition leaves processSingleCourse and the while loop
\* of the lane.
ConditionDone ==
    /\ lanes.op = "group"
    /\ \E w \in DOMAIN lanes.lane, res \in {"run", "skip", "throw"} :
         /\ lanes.lane[w].pc = "condition"
         /\ IF res = "throw"
            THEN /\ lanes' = [lanes EXCEPT
                                !.lane[w] = [NoLane EXCEPT !.pc = "threw"]]
                 /\ heap' = heap
            ELSE IF res = "skip"
            THEN /\ lanes' = [lanes EXCEPT !.lane[w] = NoLane]
                 /\ heap' = heap
            ELSE /\ lanes' = [lanes EXCEPT
                        !.lane[w].pc = "pullQuestions",
                        !.lane[w].session = <<"session", lanes.lane[w].item, 0>>]
                 /\ heap' = StartExec(heap, lanes.lane[w], 0)
    /\ UNCHANGED notLanes

\* the first pullQuestions of exec fills the resolver list and feeds the
\* earlier submissions to the resolvers
ExecPullQuestions ==
    /\ lanes.op = "group"
    /\ \E w \in DOMAIN lanes.lane :
         LET l == lanes.lane[w]
             id == <<"resolver", l.item, l.tries>>
         IN  /\ l.pc = "pullQuestions"
             /\ lanes' = [lanes EXCEPT !.lane[w].pc = "answer",
                                       !.lane[w].resolver = id]
             /\ heap' = Use(Use(New(heap, id, l.item), id, l.item),
                          l.session, l.item)
    /\ UNCHANGED notLanes

\* the rest of exec: the resolvers answer, the attempt is submitted; exec
\* returns (clearing #courseInfo) or throws, and a throw is retried
ExecAnswer ==
    /\ lanes.op = "group"
    /\ \E w \in DOMAIN lanes.lane, res \in {"ok", "error"} :
         LET l == lanes.lane[w]
             h1 == Use(Use(Use(heap, l.resolver, l.item), l.session, l.item),
                       l.processor, l.item)
         IN  /\ l.pc = "answer"
             /\ IF res = "ok"
                THEN /\ lanes' = [lanes EXCEPT !.lane[w] = NoLane]
                     /\ heap' = [h1 EXCEPT ![l.processor].courseInfo = 0]
                ELSE IF l.tries + 1 < MaxTries
                THEN /\ lanes' = [lanes EXCEPT
                            !.lane[w].pc = "pullQuestions",
                            !.lane[w].tries = @ + 1,
                            !.lane[w].resolver = NoRef,
                            !.lane[w].session =
                                <<"session", l.item, l.tries + 1>>]
                     /\ heap' = StartExec(h1, l, l.tries + 1)
                ELSE /\ lanes' = [lanes EXCEPT !.lane[w] = NoLane]
                     /\ heap' = h1
    /\ UNCHANGED notLanes

\* one call of resolveConcurrencyForCourses
ResolveConcurrency ==
    /\ lanes.op = "resolveConcurrencyForCourses"
    /\ lanes.result = <<>>
    /\ lanes' = [lanes EXCEPT !.result =
                    <<resolveConcurrencyForCourses(lanes.raw,
                                                   lanes.totalCourses)>>]
    /\ UNCHANGED <<heap, notLanes>>

LanesNext ==
    \/ ResolveConcurrency
    \/ TakeCourse
    \/ ConditionDone
    \/ ExecPullQuestions
    \/ ExecAnswer

SpecLanes == LanesInit /\ [][LanesNext]_vars

(***************************************************************************)
(* C8: every processor, exam session (with its resolver list) and resolver *)
(* is used only by the invocation of the item that created it, so two      *)
(* lanes working on different items never hold or touch the same one, and  *)
(* exec works on the course its own item stored in the processor.          *)
(***************************************************************************)
Refs(l) == {l.processor, l.session, l.resolver} \ {NoRef}

LaneIsolation ==
    lanes.op = "group" =>
      /\ \A id \in DOMAIN heap : heap[id].users \subseteq {heap[id].creator}
      /\ \A w \in DOMAIN lanes.lane :
            \A id \in Refs(lanes.lane[w]) :
               /\ heap[id].creator = lanes.lane[w].item
               /\ id[1] = "session" => heap[id].courseInfo = lanes.lane[w].item
      /\ \A w1, w2 \in DOMAIN lanes.lane :
            (w1 # w2 /\ lanes.lane[w1].item # 0 /\ lanes.lane[w2].item # 0)
               => /\ lanes.lane[w1].item # lanes.lane[w2].item
                  /\ Refs(lanes.lane[w1]) \cap Refs(lanes.lane[w2]) = {}

LaneIsolationWitness ==
    /\ lanes.op = "group"
    /\ Len(lanes.lane) = 2
    /\ lanes.lane[1].pc = "answer"
    /\ lanes.lane[2].pc = "answer"
    /\ lanes.lane[1].item # lanes.lane[2].item
    /\ lanes.lane[1].tries = 1
    /\ heap[lanes.lane[1].resolver].users = {lanes.lane[1].item}
    /\ heap[lanes.lane[2].resolver].users = {lanes.lane[2].item}

BadRequestEndsItem ==
    (exam.op = "exec" /\ exam.saw400) => exam.after400 = 0

(***************************************************************************)
(* IMSRunner.start: the selected groups one after the other; the items of  *)
(* a group are taken by its lanes (one lane in serial mode).  A lane is    *)
(* named <<group, worker>>; events is what emitProgress was called with.   *)
(***************************************************************************)
MaxGroups == 2
MaxGroupItems == 2
MaxWorkers == 2

Event(kind, g, item) == [kind |-> kind, g |-> g, item |-> item]

RunnerInit ==
    /\ \E groups \in 1..MaxGroups, concurrency \in 1..MaxWorkers :
         runner = [op |-> "start", pc |-> "group", groups |-> groups,
                   concurrency |-> concurrency, g |-> 1,
                   courses |-> [g \in 1..groups |-> 0],
                   next |-> [g \in 1..groups |-> 0],
                   lane |-> <<>>, result |-> <<>>, events |-> <<>>]
    /\ codec = Idle
    /\ resolver = Idle
    /\ resolverOp = Idle
    /\ exam = Idle
    /\ batch = Idle
    /\ lanes = Idle
    /\ heap = Idle
    /\ bus = Idle
    /\ queue = Idle

notRunner == <<codec, resolver, resolverOp, exam, batch, lanes, heap, bus,
               queue>>

\* processCourseGroup has returned: the for loop of start goes on
NextGroup(r) ==
    IF r.g + 1 > r.groups THEN [r EXCEPT !.pc = "done", !.g = @ + 1]
    ELSE [r EXCEPT !.pc = "group", !.g = @ + 1]

Emit(r, e) == [r EXCEPT !.events = Append(@, e)]

SetLane(r, id, pc, item) ==
    [r EXCEPT !.lane = [x \in DOMAIN @ \cup {id} |->
                           IF x = id THEN [pc |-> pc, item |-> item]
                           ELSE @[x]]]

SetResult(r, id, res) ==
    [r EXCEPT !.result = [x \in DOMAIN @ \cup {id} |->
                             IF x = id THEN res ELSE @[x]]]

\* processCourseGroup up to the first processSingleCourse
GroupStart ==
    /\ runner.op = "start"
    /\ runner.pc = "group"
    /\ \E res \in 0..MaxGroupItems, ok \in BOOLEAN :
         LET g == runner.g
             workers == IF runner.concurrency <= 1 \/ res <= 1 THEN 1
                        ELSE IF runner.concurrency < res
                             THEN runner.concurrency ELSE res
             started == Emit([runner EXCEPT !.courses[g] = res],
                             Event("groupStart", g, 0))
         IN  runner' =
               IF ~ok
               THEN NextGroup(Emit(runner, Event("groupError", g, 0)))
               ELSE IF res = 0
               THEN NextGroup(Emit(started, Event("groupEnd", g, 0)))
               ELSE [started EXCEPT
                       !.pc = "running",
                       !.lane = [x \in DOMAIN @ \cup
                                       {<<g, w>> : w \in 1..workers} |->
                                   IF x \in DOMAIN @ THEN @[x]
                                   ELSE [pc |-> "idle", item |-> 0]]]
    /\ UNCHANGED notRunner

\* a lane takes the next item of its group (idx = next++, or the next
\* turn of the serial for loop): courseStart, then processor.condition
LaneTake ==
    /\ runner.op = "start"
    /\ runner.pc # "exited"
    /\ \E id \in DOMAIN runner.lane :
         LET g == id[1]
             idx == runner.next[g]
             r == [runner EXCEPT !.next[g] = @ + 1]
         IN  /\ runner.lane[id].pc = "idle"
             /\ runner' =
                  IF idx >= runner.courses[g]
                  THEN SetLane(r, id, "returned", 0)
                  ELSE Emit(SetLane(r, id, "condition", idx + 1),
                            Event("courseStart", g, idx + 1))
    /\ UNCHANGED notRunner

\* processor.condition answers (or throws), then page.goto
ItemCondition ==
    /\ runner.op = "start"
    /\ runner.pc # "exited"
    /\ \E id \in DOMAIN runner.lane,
          res \in {"false", "throw", "gotoFailed", "run"} :
         LET g == id[1]
             item == runner.lane[id].item
             r == SetResult(runner, <<g, item>>, res)
         IN  /\ runner.lane[id].pc = "condition"
             /\ runner' =
                  IF res = "throw" THEN SetLane(r, id, "threw", item)
                  ELSE IF res = "run" THEN SetLane(r, id, "exec", item)
                  ELSE Emit(SetLane(r, id, "idle", 0),
                            Event("courseSkip", g, item))
    /\ UNCHANGED notRunner

\* errorWithRetry(...).run(exec) is over: exec returned (the score passed
\* or the retries were exhausted), kept throwing, or left the process
ItemExec ==
    /\ runner.op = "start"
    /\ runner.pc # "exited"
    /\ \E id \in DOMAIN runner.lane,
          res \in {"pass", "exhausted", "failed", "exit"} :
         LET g == id[1]
             item == runner.lane[id].item
             r == SetLane(SetResult(runner, <<g, item>>, res), id, "idle", 0)
         IN  /\ runner.lane[id].pc = "exec"
             /\ runner' =
                  IF res = "exit" THEN [r EXCEPT !.pc = "exited"]
                  ELSE IF res = "failed"
                  THEN Emit(Emit(r, Event("courseError", g, item)),
                            Event("courseDone", g, item))
                  ELSE Emit(r, Event("courseDone", g, item))
    /\ UNCHANGED notRunner

\* the loop or Promise.all over the lanes of the current group settles:
\* groupEnd when every lane has returned, the catch block when one threw
GroupSettle ==
    /\ runner.op = "start"
    /\ runner.pc = "running"
    /\ LET g == runner.g
           mine == {id \in DOMAIN runner.lane : id[1] = g}
       IN  IF \E id \in mine : runner.lane[id].pc = "threw"
           THEN runner' = NextGroup(Emit(runner, Event("groupError", g, 0)))
           ELSE /\ \A id \in mine : runner.lane[id].pc = "returned"
                /\ runner' = NextGroup(Emit(runner, Event("groupEnd", g, 0)))
    /\ UNCHANGED notRunner

RunnerNext ==
    \/ GroupStart
    \/ LaneTake
    \/ ItemCondition
    \/ ItemExec
    \/ GroupSettle

SpecRunner == RunnerInit /\ [][RunnerNext]_vars

Emitted(kind, g, item) ==
    \E k \in DOMAIN runner.events : runner.events[k] = Event(kind, g, item)

Count(kind, g) ==
    Cardinality({k \in DOMAIN runner.events :
                    runner.events[k] = Event(kind, g, 0)})

(***************************************************************************)
(* C13: when submissionsStorage returns no submission id for an item, only *)
(* that item is aborted: the run goes on (other lanes, remaining items and *)
(* groups), the process is not ended.                                      *)
(***************************************************************************)
NoSubmissionIdAbortsOnlyItem ==
    runner.op = "start" =>
       \A x \in DOMAIN runner.result :
          runner.result[x] = "exit" => runner.pc # "exited"

(***************************************************************************)
(* C14: an exception raised while an item is processed, by condition or by *)
(* exec after the retries, is reported as courseError for that item, and   *)
(* every other item of the group is still processed.                       *)
(***************************************************************************)
ItemExceptionReported ==
    runner.op = "start" =>
       /\ \A x \in DOMAIN runner.result :
             runner.result[x] \in {"throw", "failed"} =>
                Emitted("courseError", x[1], x[2])
       /\ (/\ runner.pc = "done"
           /\ \A id \in DOMAIN runner.lane :
                 runner.lane[id].pc \in {"returned", "threw"})
             => \A g \in 1..runner.groups :
                   \A item \in 1..runner.courses[g] :
                      Emitted("courseStart", g, item)

(***************************************************************************)
(* C15: a group whose processing throws emits groupError and the later     *)
(* groups are still processed; no group emits both groupEnd and            *)
(* groupError, and when the run is over every group has emitted exactly    *)
(* one of them.                                                            *)
(***************************************************************************)
GroupEndsExactlyOnce ==
    runner.op = "start" =>
       /\ \A g \in 1..runner.groups :
             Count("groupEnd", g) + Count("groupError", g) <= 1
       /\ \A g \in 1..runner.groups :
             g < runner.g => Count("groupEnd", g) + Count("groupError", g) = 1
       /\ runner.pc \in {"done", "exited"} =>
             \A g \in 1..runner.groups :
                Count("groupEnd", g) + Count("groupError", g) = 1

(***************************************************************************)
(* C20: an item whose exam loop ended at the retry ceiling without the     *)
(* score reaching the threshold is reported as courseSkip, not as          *)
(* courseDone and not as courseError.                                      *)
(***************************************************************************)
ExhaustedReportedAsSkip ==
    runner.op = "start" =>
       \A x \in DOMAIN runner.result :
          runner.result[x] = "exhausted" =>
             /\ Emitted("courseSkip", x[1], x[2])
             /\ ~Emitted("courseDone", x[1], x[2])
             /\ ~Emitted("courseError", x[1], x[2])

(***************************************************************************)
(* C16: resolveConcurrencyForCourses(total) is 0 for total <= 0 and        *)
(* otherwise min(c, 6, total), c being getConcurrency's value or, when     *)
(* that is 0, min(6, total); for total > 0 it lies in 1..min(6, total);    *)
(* and a group never has more items in process than that.                  *)
(***************************************************************************)
InProcess ==
    Cardinality({w \in DOMAIN lanes.lane : lanes.lane[w].item # 0})

ConcurrencyBound ==
    /\ (lanes.op = "resolveConcurrencyForCourses" /\ lanes.result # <<>>) =>
          LET total == lanes.totalCourses
              cfg == getConcurrency(lanes.raw)
              c == IF cfg = 0 THEN Min(6, total) ELSE cfg
              r == lanes.result[1]
          IN  /\ total <= 0 => r = 0
              /\ total > 0 => /\ r = Min(Min(c, 6), total)
                              /\ r >= 1
                              /\ r <= Min(6, total)
    /\ lanes.op = "group" =>
          /\ lanes.concurrency \in 1..Min(6, lanes.courses)
          /\ InProcess <= lanes.concurrency

\* a configured 7 and 8 courses: the hard cap decides
ConcurrencyBoundWitness ==
    /\ lanes.op = "resolveConcurrencyForCourses"
    /\ lanes.raw = IntNum(7)
    /\ lanes.totalCourses = 8
    /\ lanes.result = <<6>>

(***************************************************************************)
(* IMSRunner.onProgress / emitProgress: the listener set (in insertion     *)
(* order) and, for every listener, the events its callback was called      *)
(* with.  Events are numbered in emission order.                           *)
(***************************************************************************)
MaxListeners == 2
MaxEvents == 3

Remove(order, l) == SelectSeq(order, LAMBDA x : x # l)

deliver_untilThrow(order, throwers) ==
    IF \E k \in DOMAIN order : order[k] \in throwers
    THEN SubSeq(order, 1,
                CHOOSE k \in DOMAIN order :
                   /\ order[k] \in throwers
                   /\ \A j \in 1..(k - 1) : order[j] \notin throwers)
    ELSE order

\* for (const l of this.progressListeners) { try { l(e) } catch {} }:
\* the listeners whose callback is called, in order
deliver(order, throwers) == order

BusInit ==
    /\ bus = [op |-> "bus", listeners |-> <<>>, handles |-> {},
              off |-> {}, emitted |-> 0,
              received |-> [l \in 1..MaxListeners |-> <<>>],
              registered |-> <<>>, removed |-> <<>>]
    /\ codec = Idle
    /\ resolver = Idle
    /\ resolverOp = Idle
    /\ exam = Idle
    /\ batch = Idle
    /\ lanes = Idle
    /\ heap = Idle
    /\ runner = Idle
    /\ queue = Idle

notBus == <<codec, resolver, resolverOp, exam, batch, lanes, heap, runner,
            queue>>

\* onProgress(listener): Set.add, and the unsubscribe function is returned
OnProgress ==
    /\ bus.op = "bus"
    /\ \E l \in 1..MaxListeners :
         bus' = [bus EXCEPT
                   !.listeners = IF \E k \in DOMAIN @ : @[k] = l THEN @
                                 ELSE Append(@, l),
                   !.handles = @ \cup {l},
                   !.off = @ \ {l}]
    /\ bus.listeners # bus'.listeners \/ bus.off # bus'.off
    /\ UNCHANGED notBus

\* a function returned by onProgress is called: Set.delete
Unsubscribe ==
    /\ bus.op = "bus"
    /\ \E l \in bus.handles :
         bus' = [bus EXCEPT !.listeners = Remove(@, l),
                            !.off = @ \cup {l}]
    /\ bus.off # bus'.off
    /\ UNCHANGED notBus

\* emitProgress(e); the callbacks in throwers throw
EmitProgress ==
    /\ bus.op = "bus"
    /\ bus.emitted < MaxEvents
    /\ \E throwers \in SUBSET {bus.listeners[k] : k \in DOMAIN bus.listeners} :
         LET e == bus.emitted + 1
             called == deliver(bus.listeners, throwers)
         IN  bus' = [bus EXCEPT
                       !.emitted = e,
                       !.received = [l \in DOMAIN @ |->
                                       IF \E k \in DOMAIN called : called[k] = l
                                       THEN Append(@[l], e) ELSE @[l]],
                       !.registered = Append(@, {bus.listeners[k] :
                                                   k \in DOMAIN bus.listeners}),
                       !.removed = Append(@, bus.off)]
    /\ UNCHANGED notBus

BusNext ==
    \/ OnProgress
    \/ Unsubscribe
    \/ EmitProgress

SpecBus == BusInit /\ [][BusNext]_vars

(***************************************************************************)
(* C17: every listener has received, once each and in emission order,      *)
(* exactly the events emitted while it was registered, whichever listeners *)
(* threw; none of them was emitted while the listener was removed through  *)
(* its unsubscribe function.                                               *)
(***************************************************************************)
EventsWhile(l) ==
    SelectSeq([e \in 1..bus.emitted |-> e], LAMBDA e : l \in bus.registered[e])

ListenersReceiveInOrder ==
    bus.op = "bus" =>
       \A l \in 1..MaxListeners :
          /\ bus.received[l] = EventsWhile(l)
          /\ \A k \in DOMAIN bus.received[l] :
                l \notin bus.removed[bus.received[l][k]]

ListenersReceiveInOrderWitness ==
    /\ bus.op = "bus"
    /\ bus.emitted = 3
    /\ bus.received[1] = <<1, 3>>
    /\ bus.received[2] = <<1, 2, 3>>
    /\ bus.removed[2] = {1}

(***************************************************************************)
(* AIModel shared by the lanes: the direct calls (getResponse,             *)
(* getMultiResponse, getTextResponse) with their #taskQueue, and           *)
(* batchRequest.  A caller is one call made by some lane; a task is named  *)
(* after its caller.  Continuations of one settled promise run in the      *)
(* order in which they were registered, and pacing timers of equal delay   *)
(* fire in the order in which they were started.                           *)
(***************************************************************************)
MaxCallers == 3
MaxRequests == 3

NotCalled == [pc |-> "idle", kind |-> "none", left |-> 0, flying |-> 0]

\* the loop test of a direct call and what follows it without an await:
\* an empty queue lets the caller create and push its task, a rejected
\* last task throws in the caller, otherwise the caller awaits the last task
EnterQueue(q, c, kind) ==
    IF q.taskQueue = <<>>
    THEN [q EXCEPT !.taskQueue = Append(@, c),
                   !.issued = Append(@, c),
                   !.callers[c] = [pc |-> "awaitTask", kind |-> kind,
                                   left |-> 0, flying |-> 1]]
    ELSE IF q.taskQueue[Len(q.taskQueue)] \in q.rejected
    THEN [q EXCEPT !.callers[c] = [pc |-> "threw", kind |-> kind,
                                   left |-> 0, flying |-> 0]]
    ELSE [q EXCEPT !.waiters = Append(@, c),
                   !.callers[c] = [pc |-> "awaitLast", kind |-> kind,
                                   left |-> 0, flying |-> 0]]

\* one batch of batchRequest: up to qps requests are started together
IssueBatch(q, c, n) ==
    [q EXCEPT !.callers[c] = [pc |-> "awaitBatch", kind |-> "batch",
                              left |-> n - Min(q.qps, n),
                              flying |-> Min(q.qps, n)]]

QueueInit ==
    /\ \E qps \in 1..MaxQps :
         queue = [op |-> "ai", qps |-> qps, taskQueue |-> <<>>,
                  callers |-> [c \in 1..MaxCallers |-> NotCalled],
                  waiters |-> <<>>, sleeping |-> <<>>, rejected |-> {},
                  arrived |-> <<>>, issued |-> <<>>]
    /\ codec = Idle
    /\ resolver = Idle
    /\ resolverOp = Idle
    /\ exam = Idle
    /\ batch = Idle
    /\ lanes = Idle
    /\ heap = Idle
    /\ runner = Idle
    /\ bus = Idle

notQueue == <<codec, resolver, resolverOp, exam, batch, lanes, heap, runner,
              bus>>

\* a lane calls getResponse / getMultiResponse / getTextResponse
DirectCall ==
    /\ queue.op = "ai"
    /\ \E c \in 1..MaxCallers :
         /\ queue.callers[c].pc = "idle"
         /\ queue' = EnterQueue([queue EXCEPT !.arrived = Append(@, c)],
                                c, "direct")
    /\ UNCHANGED notQueue

\* the request of the queued task settles: its owner pops the queue when
\* it resolved and throws before the pop when it rejected; the callers
\* awaiting it start their pacing sleep or throw with its error
TaskSettle ==
    /\ queue.op = "ai"
    /\ queue.taskQueue # <<>>
    /\ LET t == queue.taskQueue[Len(queue.taskQueue)]
       IN  /\ queue.callers[t].pc = "awaitTask"
           /\ \E ok \in BOOLEAN :
                queue' =
                  [queue EXCEPT
                     !.taskQueue = IF ok THEN SubSeq(@, 1, Len(@) - 1) ELSE @,
                     !.rejected = IF ok THEN @ ELSE @ \cup {t},
                     !.waiters = <<>>,
                     !.sleeping = IF ok THEN @ \o queue.waiters ELSE @,
                     !.callers =
                        [c \in DOMAIN @ |->
                           IF c = t
                           THEN [@[c] EXCEPT !.pc = IF ok THEN "done"
                                                    ELSE "threw",
                                             !.flying = 0]
                           ELSE IF @[c].pc = "awaitLast"
                           THEN [@[c] EXCEPT !.pc = IF ok THEN "sleep"
                                                    ELSE "threw"]
                           ELSE @[c]]]
    /\ UNCHANGED notQueue

\* sleep(1000 / Qps + 300) of the oldest sleeper is over: the loop test again
PacingElapsed ==
    /\ queue.op = "ai"
    /\ queue.sleeping # <<>>
    /\ queue' = EnterQueue([queue EXCEPT !.sleeping = Tail(@)],
                           Head(queue.sleeping), "direct")
    /\ UNCHANGED notQueue

\* a lane calls batchRequest with n requests: the first batch starts at once
BatchCall ==
    /\ queue.op = "ai"
    /\ \E c \in 1..MaxCallers, n \in 1..MaxRequests :
         /\ queue.callers[c].pc = "idle"
         /\ queue' = IssueBatch(queue, c, n)
    /\ UNCHANGED notQueue

\* one request of a batch settles (a failure is caught and defaulted);
\* after the last one the call sleeps before the next batch or returns
BatchRequestSettle ==
    /\ queue.op = "ai"
    /\ \E c \in 1..MaxCallers :
         /\ queue.callers[c].pc = "awaitBatch"
         /\ queue' =
              [queue EXCEPT
                 !.callers[c].flying = @ - 1,
                 !.callers[c].pc =
                    IF queue.callers[c].flying > 1 THEN "awaitBatch"
                    ELSE IF queue.callers[c].left > 0 THEN "batchSleep"
                    ELSE "done"]
    /\ UNCHANGED notQueue

\* sleep(1000) between two batches is over
BatchSleepElapsed ==
    /\ queue.op = "ai"
    /\ \E c \in 1..MaxCallers :
         /\ queue.callers[c].pc = "batchSleep"
         /\ queue' = IssueBatch(queue, c, queue.callers[c].left)
    /\ UNCHANGED notQueue

QueueNext ==
    \/ DirectCall
    \/ TaskSettle
    \/ PacingElapsed
    \/ BatchCall
    \/ BatchRequestSettle
    \/ BatchSleepElapsed

SpecQueue == QueueInit /\ [][QueueNext]_vars

RECURSIVE InFlight(_, _)
InFlight(q, S) ==
    IF S = {} THEN 0
    ELSE LET c == CHOOSE x \in S : TRUE
         IN  q.callers[c].flying + InFlight(q, S \ {c})

Direct == {c \in 1..MaxCallers : queue.callers[c].kind = "direct"}
Batching == {c \in 1..MaxCallers : queue.callers[c].kind = "batch"}

(***************************************************************************)
(* C18: at most one direct request is in flight, and the direct requests   *)
(* were issued in the order in which their callers arrived.                *)
(***************************************************************************)
DirectCallsFifo ==
    queue.op = "ai" =>
       /\ InFlight(queue, Direct) <= 1
       /\ Len(queue.issued) <= Len(queue.arrived)
       /\ queue.issued = SubSeq(queue.arrived, 1, Len(queue.issued))

(***************************************************************************)
(* C19: batches of two different callers never have requests in flight at  *)
(* the same time, and at most qps requests are in flight in the process.   *)
(***************************************************************************)
RateLimitIsGlobal ==
    queue.op = "ai" =>
       /\ InFlight(queue, 1..MaxCallers) <= queue.qps
       /\ \A c, d \in Batching :
             queue.callers[c].flying > 0 /\ queue.callers[d].flying > 0
                => c = d

(***************************************************************************)
(* C21: every processor was constructed by the processSingleCourse call of *)
(* one item and is used by that call only, two lanes never hold the same   *)
(* processor, and every exec read the course info that the condition of    *)
(* its own item stored.                                                    *)
(***************************************************************************)
Processors == {id \in DOMAIN heap : id[1] = "processor"}

ProcessorPerItem ==
    lanes.op = "group" =>
      /\ \A id \in Processors :
            /\ heap[id].creator = id[2]
            /\ heap[id].users \subseteq {id[2]}
      /\ \A w1, w2 \in DOMAIN lanes.lane :
            (w1 # w2 /\ lanes.lane[w1].processor # NoRef)
               => lanes.lane[w1].processor # lanes.lane[w2].processor
      /\ \A id \in DOMAIN heap :
            id[1] = "session" => heap[id].courseInfo = id[2]

ProcessorPerItemWitness ==
    /\ lanes.op = "group"
    /\ Cardinality(Processors) = 3
    /\ \E w1, w2 \in DOMAIN lanes.lane :
          /\ lanes.lane[w1].pc = "answer"
          /\ lanes.lane[w1].item = 3
          /\ lanes.lane[w1].tries = 1
          /\ lanes.lane[w2].pc = "condition"
          /\ lanes.lane[w2].item = 2

(***************************************************************************)
(* ExamProc.condition with checkExamRunnable, and what processSingleCourse *)
(* does with its answer.  A subject of the summary is its type and its     *)
(* optional list of sub-subject types; "hotspot" stands for a type that    *)
(* has no entry in the resolver table.                                     *)
(***************************************************************************)
MaxSubjects == 2
MaxSubSubjects == 2
MaxSubmitLimit == 2

Registered == {"single_selection", "true_or_false", "multiple_selection",
               "short_answer", "fill_in_blank", "cloze", "matching",
               "analysis"}

\* submit_limit is <<>> for null; sub_subjects is {} for undefined and
\* {list} otherwise
checkExamRunnable(submitLimit, submittedCount, subjects) ==
    LET isSupportSubject(type) == type \in Registered \/ type = "random"
    IN  /\ submitLimit # <<0>>
        /\ submitLimit = <<>> \/ submittedCount < submitLimit[1]
        /\ \A k \in DOMAIN subjects :
              subjects[k].type # "text" =>
                 IF subjects[k].type = "random"
                 THEN (\A sub \in subjects[k].sub_subjects :
                          \A j \in DOMAIN sub : isSupportSubject(sub[j]))
                      \/ TRUE
                 ELSE isSupportSubject(subjects[k].type)

ConditionInit ==
    /\ LET SubLists == UNION {[1..n -> {"single_selection", "hotspot"}] :
                                 n \in 0..MaxSubSubjects}
           Subject == [type : {"single_selection", "text", "hotspot"},
                       sub_subjects : {{}}]
                      \cup [type : {"random"},
                            sub_subjects : {{}} \cup {{l} : l \in SubLists}]
       IN  exam \in [op : {"condition"}, pc : {"condition"},
                     aiLoaded : BOOLEAN,
                     submitLimit : {<<>>} \cup
                                   {<<n>> : n \in 0..MaxSubmitLimit},
                     submittedCount : 0..1,
                     subjects : UNION {[1..n -> Subject] :
                                          n \in 0..MaxSubjects},
                     result : {<<>>}, events : {<<>>}, execCalls : {0}]
    /\ codec = Idle
    /\ resolver = Idle
    /\ resolverOp = Idle
    /\ batch = Idle
    /\ lanes = Idle
    /\ heap = Idle
    /\ runner = Idle
    /\ bus = Idle
    /\ queue = Idle

\* await processor.condition(course)
Condition ==
    /\ exam.op = "condition"
    /\ exam.pc = "condition"
    /\ exam' = [exam EXCEPT
                  !.pc = "decided",
                  !.result = <<exam.aiLoaded
                               /\ checkExamRunnable(exam.submitLimit,
                                                    exam.submittedCount,
                                                    exam.subjects)>>]
    /\ UNCHANGED notExam

\* false: courseSkip is emitted and the item is left; true: the page is
\* opened and processor.exec runs
AfterCondition ==
    /\ exam.op = "condition"
    /\ exam.pc = "decided"
    /\ exam' = IF exam.result[1]
               THEN [exam EXCEPT !.pc = "exec", !.execCalls = @ + 1]
               ELSE [exam EXCEPT !.pc = "returned",
                                 !.events = Append(@, "courseSkip")]
    /\ UNCHANGED notExam

ConditionNext ==
    \/ Condition
    \/ AfterCondition

SpecCondition == ConditionInit /\ [][ConditionNext]_vars

(***************************************************************************)
(* C22: an exam with a non-text subject whose type, or for a random        *)
(* subject the type of one of its sub-subjects, has no resolver is         *)
(* answered with false by condition, reported with courseSkip, and exec    *)
(* is never called for it.                                                 *)
(***************************************************************************)
HasUnsupported(subjects) ==
    \E k \in DOMAIN subjects :
       \/ subjects[k].type \notin Registered \cup {"text", "random"}
       \/ /\ subjects[k].type = "random"
          /\ \E sub \in subjects[k].sub_subjects :
                \E j \in DOMAIN sub : sub[j] \notin Registered \cup {"random"}

UnsupportedTypeSkipsItem ==
    (exam.op = "condition" /\ HasUnsupported(exam.subjects)) =>
       /\ exam.result # <<>> => exam.result = <<FALSE>>
       /\ exam.execCalls = 0
       /\ exam.pc \in {"returned", "exec"} => exam.events = <<"courseSkip">>

(***************************************************************************)
(* C23: for a resolver of any kind getBatchRequestData returns null        *)
(* exactly when isPass() is true; for a single-answer resolver the option  *)
(* list of a non-null result is the subject's options without the excluded *)
(* ones, in the subject's order, and a prefetched index is read by         *)
(* getAnswer against that same list.                                       *)
(***************************************************************************)
RemainingInOrder(r) ==
    CHOOSE s \in SubSeqs(r.options) :
       Range(s) = Range(r.options) \ Range(r.wrongOptions)

BatchDataMatchesAnswer ==
    /\ [](resolverOp.op = "getBatchRequestData" =>
            /\ resolverOp.ret = <<>> <=> isPass(resolver)
            /\ (resolverOp.ret # <<>> /\ IsSingleKind(resolver.kind))
                  => resolverOp.ret[1].options = RemainingInOrder(resolver))
    /\ [][(/\ resolverOp'.op = "getAnswer"
           /\ resolverOp'.calls = resolverOp.calls + 1
           /\ resolverOp'.src = "prefetched"
           /\ IsSingleKind(resolver.kind))
             => resolverOp'.ret =
                  <<getBatchRequestData(resolver)[1].options[
                       resolver.prefetched[1].indices[1] + 1]>>]_vars

BatchDataMatchesAnswerWitness ==
    /\ resolverOp.op = "getAnswer"
    /\ resolverOp.src = "prefetched"
    /\ resolver.kind = "single_selection"
    /\ Len(resolver.options) = 3
    /\ resolver.wrongOptions = <<resolver.options[1]>>
    /\ resolverOp.ret = <<resolver.options[3]>>

(***************************************************************************)
(* C26 as stated: whenever pullQuestions has returned questions and        *)
(* earlier submissions exist (the server reports an exam score), their     *)
(* results were fed to the resolvers, whatever the scores were.            *)
(***************************************************************************)
HistoryAlwaysFed ==
    (exam.op = "exec" /\ exam.pc = "submissionsStorage" /\ exam.best # <<>>)
       => exam.fed = "fed"

(***************************************************************************)
(* C24: addAnswerFilter is idempotent.  After a call with some evidence,   *)
(* the same call again leaves the resolver as it is; and after two         *)
(* consecutive calls, feeding the evidence of both again, in the same      *)
(* order, leaves the resolver as it is.                                    *)
(***************************************************************************)
Feed(r, op) == addAnswerFilter(r, op.score, op.ids).r

FilterIdempotent ==
    /\ []((resolverOp.op = "addAnswerFilter" /\ ~resolverOp.threw)
            => Feed(resolver, resolverOp) = resolver)
    /\ [][(/\ resolverOp.op = "addAnswerFilter"
           /\ resolverOp'.op = "addAnswerFilter"
           /\ resolverOp'.calls = resolverOp.calls + 1
           /\ ~resolverOp.threw
           /\ ~resolverOp'.threw)
             => Feed(Feed(resolver', resolverOp), resolverOp') = resolver']_vars

FilterIdempotentWitness ==
    /\ resolverOp.op = "addAnswerFilter"
    /\ resolverOp.calls = 3
    /\ resolver.kind = "single_selection"
    /\ Len(resolver.options) = 3
    /\ resolverOp.score = 0
    /\ resolverOp.ids = <<resolver.options[2]>>
    /\ resolverOp.wrongBefore = <<resolver.options[2], resolver.options[1]>>
    /\ resolver.wrongOptions = resolverOp.wrongBefore

(***************************************************************************)
(* C25: the excluded options are options of the subject; a single-answer   *)
(* resolver is passed only when exactly one option is left unexcluded; a   *)
(* multi-select or text resolver becomes passed only by an addAnswerFilter *)
(* call with a non-zero score and is not passed after a reset.             *)
(***************************************************************************)
ResolverInvariant ==
    /\ [](/\ Range(resolver.wrongOptions) \subseteq Range(resolver.options)
          /\ (IsSingleKind(resolver.kind) /\ isPass(resolver))
                => Cardinality(Range(resolver.options)
                               \ Range(resolver.wrongOptions)) = 1)
    /\ [][~IsSingleKind(resolver.kind) =>
            /\ (isPass(resolver') /\ ~isPass(resolver))
                  => /\ resolverOp'.op = "addAnswerFilter"
                     /\ resolverOp'.score # 0
            /\ (resolverOp'.op = "reset"
                /\ resolverOp'.calls = resolverOp.calls + 1)
                  => ~isPass(resolver')]_vars

ResolverInvariantWitness ==
    /\ resolver.kind = "multiple_selection"
    /\ isPass(resolver)
    /\ resolverOp.op = "getAnswer"
    /\ resolverOp.src = "solved"
    /\ resolverOp.calls = 3

(***************************************************************************)
(* C27 as stated: once a choice resolver is passed with an answer taken    *)
(* from a non-zero attempt, every later getAnswer returns that answer:     *)
(* short of a reset, and of feedback that excludes a single-choice         *)
(* resolver's one remaining option, the answer never changes again.        *)
(***************************************************************************)
ForcedAnswer(r) ==
    IF IsSingleKind(r.kind) THEN Unexcluded(r) ELSE r.solvedAnswer[1]

NotWrong(options, ids) ==
    CHOOSE s \in SubSeqs(options) : Range(s) = Range(options) \ Range(ids)

Placeholder(kind) == IF kind = "matching" THEN <<26080, 21305>> ELSE <<26080>>

TextRetriesAfterFailure ==
    (/\ resolverOp.op = "getAnswerText"
     /\ resolver.kind \in TextKinds
     /\ ~resolverOp.passBefore
     /\ resolverOp.src # "prefetched")
        => /\ resolverOp.aiCalls <= TextTries
           /\ \/ resolverOp.src = "direct"
              \/ /\ resolverOp.aiCalls = TextTries
                 /\ resolverOp.ret = <<Placeholder(resolver.kind)>>

(***************************************************************************)
(* C28, amended: for a free-text resolver that has not passed,             *)
(* getAnswerText first uses a prefetched text that is non-empty and not    *)
(* yet tried, without any call; otherwise it makes at most 3 direct calls, *)
(* going on to the next one only after an empty or already-tried answer    *)
(* and stopping at the first failed call; it returns the first non-empty   *)
(* answer not in the tried set and records it as tried and as the last     *)
(* answer; when the calls end without one it returns the last recorded     *)
(* answer if there is one and the placeholder of its class otherwise,      *)
(* recording nothing.                                                      *)
(***************************************************************************)
TextFallsBackOnFailure ==
    [][(/\ resolverOp'.op = "getAnswerText"
        /\ resolverOp'.calls = resolverOp.calls + 1
        /\ resolver.kind \in TextKinds
        /\ ~resolver.pass)
          => LET ais == resolverOp'.ids
                 n == resolverOp'.aiCalls
                 Norm(raw) == trim(collapse(raw))
                 Fresh(t) == t # <<>> /\ t \notin resolver.tried
                 Usable(k) == ais[k].ok /\ Fresh(Norm(ais[k].raw))
                 pre == /\ resolver.prefetched # <<>>
                        /\ Fresh(Norm(resolver.prefetched[1].text))
                 Records(t) ==
                     /\ resolverOp'.ret = <<t>>
                     /\ resolver'.tried = resolver.tried \cup {t}
                     /\ resolver'.cached = <<t>>
             IN  /\ n = Len(ais)
                 /\ n <= TextTries
                 /\ ~resolverOp'.threw
                 /\ pre => n = 0 /\ Records(Norm(resolver.prefetched[1].text))
                 /\ ~pre =>
                      /\ n >= 1
                      /\ \A k \in 1..(n - 1) : ais[k].ok /\ ~Usable(k)
                      /\ IF Usable(n) THEN Records(Norm(ais[n].raw))
                         ELSE /\ n = TextTries \/ ~ais[n].ok
                              /\ resolverOp'.ret =
                                   IF resolver.cached # <<>>
                                   THEN resolver.cached
                                   ELSE <<Placeholder(resolver.kind)>>
                              /\ resolver'.tried = resolver.tried
                              /\ resolver'.cached = resolver.cached]_vars

TextFallsBackOnFailureWitness ==
    /\ resolver.kind \in TextKinds
    /\ resolverOp.op = "getAnswerText"
    /\ resolverOp.calls = 2
    /\ ~resolverOp.passBefore
    /\ resolverOp.aiCalls = 2
    /\ resolverOp.ids[1].ok
    /\ ~resolverOp.ids[2].ok
    /\ resolverOp.src = "fallback"
    /\ resolverOp.ret = <<<<97>>>>
    /\ resolver.tried = {<<97>>}

(***************************************************************************)
(* C29: every loop of exec has a fixed ceiling.  One pullQuestions         *)
(* re-fetches the submissions at most 5 times, 10 s before each re-fetch,  *)
(* and after the fifth re-fetch goes on whether or not a submission is     *)
(* still ungraded; one submitAnswer posts at most 5 times; exec opens at   *)
(* most maxRetries + 1 attempts and so posts at most 5 * (maxRetries + 1)  *)
(* times; and when every call it awaits answers, exec ends.                *)
(***************************************************************************)
LoopCeilings ==
    /\ exam.i <= PollLimit
    /\ exam.pollSlept = exam.i * PollDelayMs
    /\ exam.attemptPosts <= SubmitCounter
    /\ exam.opens <= exam.maxRetries + 1
    /\ exam.posts <= SubmitCounter * (exam.maxRetries + 1)

ExecLoopsBounded ==
    /\ []LoopCeilings
    /\ [][(exam.pc = "pullQuestions" /\ exam.i = PollLimit)
             => exam'.pc # "pullQuestions"]_vars
    /\ (exam.pc \notin Terminal) ~> (exam.pc \in Terminal)

ExecLoopsBoundedWitness ==
    /\ exam.pc = "done"
    /\ exam.outcome = "exhausted"
    /\ exam.maxRetries = MaxRetriesBound
    /\ exam.opens = MaxRetriesBound + 1
    /\ exam.attemptPosts = SubmitCounter
    /\ exam.i = PollLimit
    /\ exam.pollSlept = PollLimit * PollDelayMs

(***************************************************************************)
(* C30: no two lanes have the same item in progress, a lane has one item   *)
(* in progress at most, and once every lane has left its loop every item   *)
(* of the list has been handed to processSingleCourse.                     *)
(***************************************************************************)
Handed(item) == getProcessor(heap, item) \in DOMAIN heap

EveryItemHandedOnce ==
    lanes.op = "group" =>
      /\ \A w1, w2 \in DOMAIN lanes.lane :
            (w1 # w2 /\ lanes.lane[w1].item # 0)
               => lanes.lane[w1].item # lanes.lane[w2].item
      /\ \A item \in 1..lanes.courses :
            Handed(item) <=> item <= lanes.next
      /\ (\A w \in DOMAIN lanes.lane :
             lanes.lane[w].pc \in {"returned", "threw"})
            => \A item \in 1..lanes.courses : Handed(item)

(***************************************************************************)
(* C31: every resolver type provides reset(), and right after reset() the  *)
(* resolver is not passed and is in the state of a freshly constructed     *)
(* resolver for the same subject: excluded set, tried set, solved answer,  *)
(* cached text and prefetched result are all empty.                        *)
(***************************************************************************)
ResetClearsAll ==
    resolverOp.op = "reset"
        => /\ ~resolverOp.threw
           /\ ~isPass(resolver)
           /\ resolver = NewResolver(resolver.kind, resolver.options)

(***************************************************************************)
(* IMSRunner.selectCourseGroup.  A candidate is a record of its title and  *)
(* its raw percent text (<<>> for null); the result lists candidates by    *)
(* their position in listItems, 0 standing for undefined.  Numbers read    *)
(* from the environment or the console are given in tenths; NaN is the     *)
(* record with nan = TRUE.                                                 *)
(***************************************************************************)
MaxListed == 2
DefaultLowestN == 3

Num(v) == [nan |-> FALSE, v |-> v]

NaN == [nan |-> TRUE, v |-> 0]

floor(v) == (v - (v % 10)) \div 10

IsDigit(c) == c \in 48..57

\* the value, in tenths, of the first /(\d+(?:\.\d+)?)/ of the trimmed
\* text, <<>> for NaN
parseGroupPercent(raw) ==
    LET s == trim(raw)
        starts == {k \in 1..Len(s) : IsDigit(s[k])}
        from == CHOOSE k \in starts : \A j \in starts : k <= j
        IsRun(a, b) == \A k \in a..b : IsDigit(s[k])
        to == CHOOSE k \in from..Len(s) :
                  /\ IsRun(from, k)
                  /\ k = Len(s) \/ ~IsDigit(s[k + 1])
        Whole(a, b) == LET RECURSIVE val(_)
                           val(k) == IF k < a THEN 0
                                     ELSE val(k - 1) * 10 + (s[k] - 48)
                       IN  val(b)
        hasFraction == /\ to + 2 <= Len(s)
                       /\ s[to + 1] = 46
                       /\ IsDigit(s[to + 2])
    IN  IF starts = {} THEN <<>>
        ELSE <<Whole(from, to) * 10
               + (IF hasFraction THEN s[to + 2] - 48 ELSE 0)>>

\* the positions of the candidates below 100 or without a parsed percent;
\* all positions when there is none
pickUncompleted(listItems) ==
    LET p(k) == parseGroupPercent(listItems[k].percent)
        uncompleted == {k \in DOMAIN listItems : p(k) = <<>> \/ p(k)[1] < 1000}
    IN  IF uncompleted # {} THEN uncompleted ELSE DOMAIN listItems

getGroupLowestN(raw) ==
    IF raw = <<>> THEN DefaultLowestN
    ELSE IF ~raw[1].nan /\ floor(raw[1].v) > 0 THEN floor(raw[1].v)
    ELSE DefaultLowestN

\* a.localeCompare(b, 'zh-CN') < 0 for titles of ASCII letters: by letter
\* first, lower case before upper case among equal letters
RECURSIVE LexLess(_, _)
LexLess(a, b) ==
    IF b = <<>> THEN FALSE
    ELSE IF a = <<>> THEN TRUE
    ELSE IF Head(a) # Head(b) THEN Head(a) < Head(b)
    ELSE LexLess(Tail(a), Tail(b))

localeCompareLess(a, b) ==
    IF toLowerCase(a) # toLowerCase(b)
    THEN LexLess(toLowerCase(a), toLowerCase(b))
    ELSE LexLess(b, a)

\* [...candidates].sort(compare).slice(0, n); the sort is stable
pickLowestGroups(listItems, lowestRaw) ==
    LET candidates == pickUncompleted(listItems)
        n == Min(getGroupLowestN(lowestRaw), Cardinality(candidates))
        p(k) == parseGroupPercent(listItems[k].percent)
        Less(i, j) ==
            IF (p(i) = <<>>) # (p(j) = <<>>) THEN p(j) = <<>>
            ELSE IF p(i) # <<>> /\ p(j) # <<>> /\ p(i) # p(j)
            THEN p(i)[1] < p(j)[1]
            ELSE localeCompareLess(listItems[i].title, listItems[j].title)
        Before(i, j) == Less(i, j) \/ (~Less(j, i) /\ i < j)
        Rank(i) == Cardinality({j \in candidates : Before(j, i)}) + 1
    IN  [k \in 1..n |-> CHOOSE i \in candidates : Rank(i) = k]

Includes(t, needle) ==
    \E k \in 0..(Len(t) - Len(needle)) :
        SubSeq(t, k + 1, k + Len(needle)) = needle

\* the positions whose title the _GROUP_TITLE matcher accepts
matched(listItems, envTitle) ==
    LET raw == trim(envTitle)
        isRegExp == Len(raw) > 2 /\ raw[1] = 47 /\ raw[Len(raw)] = 47
        matcher(t) ==
            IF isRegExp THEN Includes(t, SubSeq(raw, 2, Len(raw) - 1))
            ELSE Includes(toLowerCase(t), toLowerCase(raw))
    IN  {k \in DOMAIN listItems : matcher(listItems[k].title)}

All(listItems) == [k \in 1..Len(listItems) |-> k]

InOrder(set) ==
    LET Rank(i) == Cardinality({j \in set : j < i}) + 1
    IN  [k \in 1..Cardinality(set) |-> CHOOSE i \in set : Rank(i) = k]

Return(items) == [kind |-> "return", items |-> items]

\* which policy answers: the configured index, the configured title, or
\* neither
policy(listItems, envIndex, envTitle) ==
    IF /\ envIndex # <<>>
       /\ ~envIndex[1].nan
       /\ floor(envIndex[1].v) \in 0..Len(listItems)
    THEN "index"
    ELSE IF trim(envTitle) # <<>> /\ matched(listItems, envTitle) # {}
    THEN "title"
    ELSE "default"

selectCourseGroup(listItems, envIndex, envTitle, lowestRaw, tty, input) ==
    LET which == policy(listItems, envIndex, envTitle)
        idx == floor(envIndex[1].v)
        chosen == pickLowestGroups(listItems, lowestRaw)
        num == input[1]
        at == IF num.v % 10 = 0 /\ (num.v \div 10) \in 1..Len(listItems)
              THEN num.v \div 10
              ELSE 0
    IN  IF which = "index"
        THEN Return(IF idx = 0 THEN All(listItems) ELSE <<idx>>)
        ELSE IF which = "title"
        THEN Return(InOrder(matched(listItems, envTitle)))
        ELSE IF ~tty THEN Return(chosen)
        ELSE IF input = <<>>
        THEN Return(IF Len(chosen) > 0 THEN chosen ELSE All(listItems))
        ELSE IF num.nan THEN [kind |-> "exit", items |-> <<>>]
        ELSE Return(IF num.v = 0 THEN All(listItems) ELSE <<at>>)

Numbers == {NaN} \cup {Num(v) : v \in {-10, 0, 10, 15, 20, 40}}

SelectInit ==
    /\ \E listItems \in SeqsUpTo([title : {<<97>>, <<66>>},
                                  percent : {<<>>, <<53, 48>>,
                                             <<49, 48, 48, 37>>,
                                             <<55, 46, 53>>}],
                                 0, MaxListed),
          envIndex \in {<<>>} \cup {<<n>> : n \in Numbers},
          envTitle \in {<<>>, <<66>>, <<47, 66, 47>>, <<99>>} :
         runner = [op |-> "selectCourseGroup", listItems |-> listItems,
                   envIndex |-> envIndex, envTitle |-> envTitle,
                   lowestRaw |-> <<>>, tty |-> FALSE, input |-> <<>>,
                   result |-> <<>>]
    /\ codec = Idle
    /\ resolver = Idle
    /\ resolverOp = Idle
    /\ exam = Idle
    /\ batch = Idle
    /\ lanes = Idle
    /\ heap = Idle
    /\ bus = Idle
    /\ queue = Idle

\* one call; _GROUP_LOWEST_N, the terminal and the console input are read
\* only when neither the index nor the title answers
SelectCourseGroup ==
    /\ runner.op = "selectCourseGroup"
    /\ runner.result = <<>>
    /\ LET asked == policy(runner.listItems, runner.envIndex,
                           runner.envTitle) = "default"
       IN  \E lowestRaw \in IF asked
                            THEN {<<>>} \cup {<<n>> : n \in Numbers}
                            ELSE {<<>>},
              tty \in IF asked THEN BOOLEAN ELSE {FALSE},
              input \in IF asked THEN {<<>>} \cup {<<n>> : n \in Numbers}
                        ELSE {<<>>} :
             /\ tty \/ input = <<>>
             /\ runner' = [runner EXCEPT
                   !.lowestRaw = lowestRaw, !.tty = tty, !.input = input,
                   !.result = <<selectCourseGroup(runner.listItems,
                                   runner.envIndex, runner.envTitle,
                                   lowestRaw, tty, input)>>]
    /\ UNCHANGED notRunner

SelectNext ==
    \/ SelectCourseGroup

SpecSelect == SelectInit /\ [][SelectNext]_vars

(***************************************************************************)
(* C32: a configured index 0 gives all candidates and an index i in 1..n   *)
(* the i-th; otherwise a title pattern matching some candidate gives       *)
(* exactly the matching ones; otherwise the result is at most N            *)
(* candidates in ascending order of parsed completion, unparsable ones     *)
(* last, none of them at 100 or more when some candidate is not, and no    *)
(* left-out eligible candidate is strictly lower than a selected one; and  *)
(* every entry of the result is one of the candidates.                     *)
(***************************************************************************)
SelectionPolicy ==
    (runner.op = "selectCourseGroup" /\ runner.result # <<>>)
      => LET items == runner.listItems
             res == runner.result[1].items
             n == Len(items)
             p(k) == parseGroupPercent(items[k].percent)
             which == policy(items, runner.envIndex, runner.envTitle)
             eligible == pickUncompleted(items)
         IN  /\ runner.result[1].kind = "return"
             /\ \A k \in DOMAIN res : res[k] \in 1..n
             /\ which = "index" =>
                  res = IF floor(runner.envIndex[1].v) = 0 THEN All(items)
                        ELSE <<floor(runner.envIndex[1].v)>>
             /\ which = "title" =>
                  res = InOrder(matched(items, runner.envTitle))
             /\ which = "default" =>
                  /\ Len(res) <= getGroupLowestN(runner.lowestRaw)
                  /\ Range(res) \subseteq eligible
                  /\ \A a, b \in DOMAIN res :
                       a < b => /\ res[a] # res[b]
                                /\ p(res[b]) = <<>>
                                     \/ (p(res[a]) # <<>>
                                         /\ p(res[a])[1] <= p(res[b])[1])
                  /\ \A k \in eligible \ Range(res) :
                       \A a \in DOMAIN res :
                          ~(/\ p(k) # <<>>
                            /\ p(res[a]) = <<>> \/ p(k)[1] < p(res[a])[1])

(***************************************************************************)
(* C33: a rejected task is removed from the task queue: the queue is empty *)
(* whenever no direct request is in flight, and a direct call fails only   *)
(* with the error of its own request, never with that of an earlier task.  *)
(***************************************************************************)
FailedCallIsRemoved ==
    queue.op = "ai" =>
       /\ InFlight(queue, Direct) = 0 => queue.taskQueue = <<>>
       /\ \A c \in Direct :
             queue.callers[c].pc = "threw" => c \in Range(queue.issued)

(***************************************************************************)
(* C34: every item handed to processSingleCourse gets one courseStart and, *)
(* after it, one terminal event among courseDone, courseSkip and           *)
(* courseError: never two, and exactly one once its processing is over.    *)
(***************************************************************************)
TerminalKinds == {"courseDone", "courseSkip", "courseError"}

EventsOf(kinds, g, item) ==
    {k \in DOMAIN runner.events :
        \E kind \in kinds : runner.events[k] = Event(kind, g, item)}

OneTerminalEventPerItem ==
    runner.op = "start" =>
      \A g \in 1..runner.groups : \A item \in 1..runner.courses[g] :
         LET starts == EventsOf({"courseStart"}, g, item)
             ends == EventsOf(TerminalKinds, g, item)
         IN  /\ Cardinality(starts) <= 1
             /\ Cardinality(ends) <= Cardinality(starts)
             /\ \A e \in ends : \A b \in starts : b < e
             /\ (<<g, item>> \in DOMAIN runner.result
                   /\ runner.result[<<g, item>>] # "run")
                  => Cardinality(ends) = 1

(***************************************************************************)
(* C35: submitAnswer returns normally, so that exec goes on to             *)
(* pullQuestions, only when a postSubmissions call of the attempt          *)
(* succeeded; after five 429 answers it ends in an error instead.          *)
(***************************************************************************)
SubmitReturnsOnlyAfterSuccess ==
    [][(/\ exam.op = "exec"
        /\ exam.pc \in {"postSubmissions", "sleep429"}
        /\ exam'.pc \notin {"postSubmissions", "sleep429"})
          => \/ exam'.attemptOk
             \/ exam'.pc = "threw"]_vars

(***************************************************************************)
(* C36: after the groupEnd or groupError of a group no course event of     *)
(* that group is emitted, and no lane of a group that start has left is    *)
(* still working on an item.                                               *)
(***************************************************************************)
GroupsOneAfterAnother ==
    runner.op = "start" =>
      /\ \A k, m \in DOMAIN runner.events :
            (/\ runner.events[k].kind \in {"groupEnd", "groupError"}
             /\ runner.events[m].kind \in TerminalKinds \cup {"courseStart"}
             /\ runner.events[m].g = runner.events[k].g)
               => m < k
      /\ \A id \in DOMAIN runner.lane :
            id[1] < runner.g
               => runner.lane[id].pc \notin {"condition", "exec"}

(***************************************************************************)
(* C37: getAnswerText of a passed free-text resolver returns a defined     *)
(* text, one that the resolver has returned before, and makes no AI call.  *)
(***************************************************************************)
PassedTextHasAnswer ==
    (/\ resolverOp.op = "getAnswerText"
     /\ resolver.kind \in TextKinds
     /\ resolverOp.passBefore)
        => /\ resolverOp.ret # <<>>
           /\ resolverOp.ret[1] \in resolver.tried
           /\ resolverOp.aiCalls = 0

(***************************************************************************)
(* C38: getAnswer of a single-choice or true/false resolver with at least  *)
(* one unexcluded option does not throw and returns exactly one option id, *)
(* an option of the subject outside the excluded set, whether the answer   *)
(* is forced, prefetched, asked directly or the fallback.                  *)
(***************************************************************************)
SingleAnswerIsUnexcluded ==
    (/\ resolverOp.op = "getAnswer"
     /\ IsSingleKind(resolver.kind)
     /\ Range(resolver.options) \ Range(resolver.wrongOptions) # {})
        => /\ ~resolverOp.threw
           /\ resolverOp.src \in {"forced", "prefetched", "direct", "fallback"}
           /\ Len(resolverOp.ret) = 1
           /\ resolverOp.ret[1] \in Range(resolver.options)
           /\ resolverOp.ret[1] \notin Range(resolver.wrongOptions)
           /\ resolver.wrongOptions = resolverOp.wrongBefore

SingleAnswerIsUnexcludedWitness ==
    /\ resolverOp.op = "getAnswer"
    /\ resolver.kind = "single_selection"
    /\ Len(resolver.options) = MaxOptions
    /\ resolverOp.src = "fallback"
    /\ resolverOp.aiCalls = 1
    /\ resolver.wrongOptions = <<resolver.options[1]>>
    /\ resolverOp.ret = <<resolver.options[2]>>

(***************************************************************************)
(* The Electron host's UI channel (src/src/index.ts): uiWindow, uiReady,   *)
(* bufferedProgress and bufferedInit, the UI page's preload, and the       *)
(* events core hands to sendToUi.  Progress events are numbered 1, 2, ...  *)
(* in emission order; handed records the ones handed to sendToUi while the *)
(* window exists and delivered what webContents.send gave the UI page.     *)
(***************************************************************************)
MaxProgress == 3
MaxNavigations == 1

\* sendToUi('ims:progress', e): dropped without a window, buffered until
\* the handshake, sent otherwise
sendToUi(h, e) ==
    IF ~h.uiWindow THEN h
    ELSE IF ~h.uiReady
         THEN [h EXCEPT !.bufferedProgress = Append(@, e)]
         ELSE [h EXCEPT !.delivered = Append(@, e)]

\* app.whenReady().then(createWindow) has run up to `await loadFile`:
\* the window exists, the page is loading, nothing is buffered
UiInit ==
    /\ bus = [op |-> "uiHost", pc |-> "loading", uiWindow |-> TRUE,
              uiReady |-> FALSE, bufferedProgress |-> <<>>,
              bufferedInit |-> FALSE, preloadRan |-> FALSE, readyMsgs |-> 0,
              inits |-> 0, emitted |-> 0, navigations |-> 0,
              handed |-> <<>>, delivered |-> <<>>]
    /\ codec = Idle
    /\ resolver = Idle
    /\ resolverOp = Idle
    /\ exam = Idle
    /\ batch = Idle
    /\ lanes = Idle
    /\ heap = Idle
    /\ runner = Idle
    /\ queue = Idle

\* the UI page's preload runs on DOMContentLoaded and sends ims:ui:ready
UiPreload ==
    /\ bus.op = "uiHost"
    /\ bus.uiWindow
    /\ ~bus.preloadRan
    /\ bus' = [bus EXCEPT !.preloadRan = TRUE, !.readyMsgs = @ + 1]
    /\ UNCHANGED notBus

\* loadFile resolves once the page has loaded; createWindow goes on:
\* bufferedInit = {...}; uiReady = false; bufferedProgress.length = 0;
\* then registers did-navigate and closed and calls connectToElectron
LoadFileDone ==
    /\ bus.op = "uiHost"
    /\ bus.pc = "loading"
    /\ bus.preloadRan
    /\ bus' = [bus EXCEPT !.pc = "running", !.bufferedInit = TRUE,
                          !.uiReady = FALSE, !.bufferedProgress = <<>>]
    /\ UNCHANGED notBus

\* ipcMain.on('ims:ui:ready'): sets uiReady, sends the buffered init and
\* flushes the buffered progress events in order
OnUiReady ==
    /\ bus.op = "uiHost"
    /\ bus.readyMsgs > 0
    /\ bus' = IF ~bus.uiWindow
              THEN [bus EXCEPT !.readyMsgs = @ - 1]
              ELSE [bus EXCEPT
                      !.readyMsgs = @ - 1,
                      !.uiReady = TRUE,
                      !.inits = IF bus.bufferedInit THEN @ + 1 ELSE @,
                      !.delivered = @ \o bus.bufferedProgress,
                      !.bufferedProgress = <<>>]
    /\ UNCHANGED notBus

\* session.onProgress(e => sendToUi('ims:progress', e)), registered by
\* connectToElectron after createWindow's initialisation
SendProgress ==
    /\ bus.op = "uiHost"
    /\ bus.pc = "running"
    /\ bus.emitted < MaxProgress
    /\ LET e == bus.emitted + 1
           h == [bus EXCEPT !.emitted = e,
                            !.handed = IF bus.uiWindow THEN Append(@, e)
                                       ELSE @]
       IN  bus' = sendToUi(h, e)
    /\ UNCHANGED notBus

\* webContents 'did-navigate': uiReady = false; the new page's preload
\* will send the handshake again
DidNavigate ==
    /\ bus.op = "uiHost"
    /\ bus.pc = "running"
    /\ bus.uiWindow
    /\ bus.preloadRan
    /\ bus.navigations < MaxNavigations
    /\ bus' = [bus EXCEPT !.navigations = @ + 1, !.uiReady = FALSE,
                          !.preloadRan = FALSE]
    /\ UNCHANGED notBus

\* uiWindow 'closed'
UiClosed ==
    /\ bus.op = "uiHost"
    /\ bus.pc = "running"
    /\ bus.uiWindow
    /\ bus' = [bus EXCEPT !.uiWindow = FALSE, !.uiReady = FALSE,
                          !.bufferedProgress = <<>>,
                          !.bufferedInit = FALSE]
    /\ UNCHANGED notBus

UiNext ==
    \/ UiPreload
    \/ LoadFileDone
    \/ OnUiReady
    \/ SendProgress
    \/ DidNavigate
    \/ UiClosed

SpecUi == UiInit /\ [][UiNext]_vars

(***************************************************************************)
(* C39: while the UI window exists the events delivered to the UI followed *)
(* by the buffered ones are exactly the events handed to sendToUi, in      *)
(* emission order, and once the page's handshake has been received (none   *)
(* is still to come or in flight) no event stays buffered.                 *)
(***************************************************************************)
BufferedEventsReachUi ==
    (bus.op = "uiHost" /\ bus.uiWindow)
      => /\ bus.delivered \o bus.bufferedProgress = bus.handed
         /\ (bus.preloadRan /\ bus.readyMsgs = 0)
               => bus.bufferedProgress = <<>>

(***************************************************************************)
(* IMSRunner.processCourseGroup, the activities of one group: the video    *)
(* activities first, one by one on the main page, then the others, serial  *)
(* or over worker pages.  An activity is named by its position in courses; *)
(* page 1 is the main page; log records every call of processSingleCourse  *)
(* ("start") and every return of it ("done") with the page it ran on.      *)
(***************************************************************************)
MaxActivities == 3
MaxPages == 2

ActivityTypes == {"online_video", "slide", "exam", "forum"}

VIDEO_ACTIVITY_TYPES == {"online_video", "lesson", "lesson_replay", "slide"}

isVideoActivity_noSlide(type) ==
    type \in {"online_video", "lesson", "lesson_replay"}

isVideoActivity(type) == type \in VIDEO_ACTIVITY_TYPES

\* processCourseGroup has fetched the uncompleted activities and split
\* them with courses.filter, which keeps the list order
ActivitiesInit ==
    /\ \E courses \in SeqsUpTo(ActivityTypes, 0, MaxActivities),
          concurrency \in 1..MaxWorkers, pages \in 1..MaxPages :
         LET Filter(keep) ==
               LET F[k \in 0..Len(courses)] ==
                     IF k = 0 THEN <<>>
                     ELSE IF isVideoActivity(courses[k]) = keep
                          THEN Append(F[k - 1], k) ELSE F[k - 1]
               IN  F[Len(courses)]
         IN  runner = [op |-> "processCourseGroup", pc |-> "video",
                       courses |-> courses, concurrency |-> concurrency,
                       pages |-> pages,
                       videoActivities |-> Filter(TRUE),
                       nonVideoActivities |-> Filter(FALSE),
                       vi |-> 0, next |-> 0,
                       lane |-> <<[pc |-> "idle", item |-> 0]>>,
                       log |-> <<>>]
    /\ codec = Idle
    /\ resolver = Idle
    /\ resolverOp = Idle
    /\ exam = Idle
    /\ batch = Idle
    /\ lanes = Idle
    /\ heap = Idle
    /\ bus = Idle
    /\ queue = Idle

Logged(kind, item, page) == [kind |-> kind, item |-> item, page |-> page]

\* the next turn of `for (const [i, course] of videoActivities.entries())`
VideoStart ==
    /\ runner.op = "processCourseGroup"
    /\ runner.pc = "video"
    /\ runner.lane[1].pc = "idle"
    /\ runner.vi < Len(runner.videoActivities)
    /\ LET item == runner.videoActivities[runner.vi + 1]
       IN  runner' = [runner EXCEPT
             !.vi = @ + 1,
             !.lane[1] = [pc |-> "busy", item |-> item],
             !.log = Append(@, Logged("start", item, 1))]
    /\ UNCHANGED notRunner

\* processSingleCourse returns or throws on some page (for a video, the
\* list refresh that follows every third one included: it only logs)
CourseDone ==
    /\ runner.op = "processCourseGroup"
    /\ \E w \in DOMAIN runner.lane, res \in {"ok", "throw"} :
         /\ runner.lane[w].pc = "busy"
         /\ runner' =
              IF res = "ok"
              THEN [runner EXCEPT
                      !.lane[w] = [pc |-> "idle", item |-> 0],
                      !.log = Append(@, Logged("done", runner.lane[w].item,
                                                w))]
              ELSE [runner EXCEPT
                      !.lane[w] = [pc |-> "threw", item |-> 0],
                      !.pc = IF runner.pc = "video" THEN "error" ELSE @]
    /\ UNCHANGED notRunner

\* the video loop is over: serial when concurrency <= 1 or at most one
\* activity is left or no second page can be had, else one lane per
\* worker page (processCourseGroupConcurrently, mainPage first)
Dispatch ==
    /\ runner.op = "processCourseGroup"
    /\ runner.pc = "video"
    /\ runner.lane[1].pc = "idle"
    /\ runner.vi = Len(runner.videoActivities)
    /\ LET n == Len(runner.nonVideoActivities)
           workerCount == IF runner.concurrency < n THEN runner.concurrency
                          ELSE n
           workers == IF runner.concurrency <= 1 \/ n <= 1 THEN 1
                      ELSE IF runner.pages < workerCount THEN runner.pages
                           ELSE workerCount
       IN  runner' =
             IF n = 0 THEN [runner EXCEPT !.pc = "end"]
             ELSE [runner EXCEPT
                     !.pc = "nonVideo",
                     !.lane = [w \in 1..workers |->
                                 [pc |-> "idle", item |-> 0]]]
    /\ UNCHANGED notRunner

\* idx = next++ of a worker, or the next turn of the serial for loop; the
\* other workers go on after one of them has thrown
WorkerTake ==
    /\ runner.op = "processCourseGroup"
    /\ runner.pc \in {"nonVideo", "error"}
    /\ \E w \in DOMAIN runner.lane :
         LET idx == runner.next
         IN  /\ runner.lane[w].pc = "idle"
             /\ runner' =
                  IF idx >= Len(runner.nonVideoActivities)
                  THEN [runner EXCEPT
                          !.next = @ + 1,
                          !.lane[w] = [pc |-> "returned", item |-> 0]]
                  ELSE LET item == runner.nonVideoActivities[idx + 1]
                       IN  [runner EXCEPT
                              !.next = @ + 1,
                              !.lane[w] = [pc |-> "busy", item |-> item],
                              !.log = Append(@, Logged("start", item, w))]
    /\ UNCHANGED notRunner

\* the serial loop or Promise.all settles: goBackToCourseList and
\* groupEnd, or the catch block
ActivitiesSettle ==
    /\ runner.op = "processCourseGroup"
    /\ runner.pc = "nonVideo"
    /\ IF \E w \in DOMAIN runner.lane : runner.lane[w].pc = "threw"
       THEN runner' = [runner EXCEPT !.pc = "error"]
       ELSE /\ \A w \in DOMAIN runner.lane : runner.lane[w].pc = "returned"
            /\ runner' = [runner EXCEPT !.pc = "end"]
    /\ UNCHANGED notRunner

ActivitiesNext ==
    \/ VideoStart
    \/ CourseDone
    \/ Dispatch
    \/ WorkerTake
    \/ ActivitiesSettle

SpecActivities == ActivitiesInit /\ [][ActivitiesNext]_vars

VideoTypes == {"online_video", "lesson", "lesson_replay", "slide"}

Starts(video) ==
    SelectSeq(runner.log,
              LAMBDA e : /\ e.kind = "start"
                         /\ (runner.courses[e.item] \in VideoTypes) = video)

(***************************************************************************)
(* C40: within a group the activities of type online_video, lesson,        *)
(* lesson_replay or slide are started in list order, each on the main page *)
(* and only when nothing else of the group is in process, every start of   *)
(* another activity comes after the last video activity has returned, and  *)
(* a page other than the main one only ever gets non-video activities.     *)
(***************************************************************************)
VideosFirstAndSerial ==
    runner.op = "processCourseGroup" =>
       LET log == runner.log
           videos == Starts(TRUE)
           IsVideo(item) == runner.courses[item] \in VideoTypes
           allVideos == {k \in DOMAIN runner.courses : IsVideo(k)}
       IN  /\ \A k \in DOMAIN videos :
                /\ videos[k].page = 1
                /\ k > 1 => videos[k - 1].item < videos[k].item
                /\ \A v \in allVideos :
                      v < videos[k].item
                         => \E j \in 1..(k - 1) : videos[j].item = v
           /\ \A k \in DOMAIN log :
                (log[k].kind = "start" /\ IsVideo(log[k].item))
                   => \A j \in 1..(k - 1) :
                         log[j].kind = "start"
                            => \E d \in (j + 1)..(k - 1) :
                                  log[d] = Logged("done", log[j].item,
                                                  log[j].page)
           /\ \A k \in DOMAIN log :
                (log[k].kind = "start" /\ ~IsVideo(log[k].item))
                   => \A v \in allVideos :
                         \E d \in 1..(k - 1) : log[d] = Logged("done", v, 1)
           /\ \A k \in DOMAIN log :
                log[k].page # 1 => ~IsVideo(log[k].item)

\* a video listed between two other activities ran first, alone on the
\* main page, and the two others are now in process on two pages
VideosFirstAndSerialWitness ==
    /\ runner.op = "processCourseGroup"
    /\ runner.courses = <<"exam", "slide", "forum">>
    /\ runner.log = <<Logged("start", 2, 1), Logged("done", 2, 1),
                      Logged("start", 1, 1), Logged("start", 3, 2)>>
    /\ runner.lane[1].pc = "busy"
    /\ runner.lane[2].pc = "busy"

====
